---- MODULE Spec2Model ----
(***************************************************************************)
(* Authentication decision layer of cue: the token codec                   *)
(* (GenerateToken / ValidateToken / computeHMAC), the identity extractor   *)
(* (ExtractUserFromCert / SingleUserContext), the source-address           *)
(* extractor, the security-event emitters and the two request middlewares  *)
(* (Middleware / RequireCertAuth).                                         *)
(*                                                                         *)
(* Representation.                                                         *)
(*  - Time is counted in ticks, TicksPerSec ticks to the second, so that   *)
(*    time.Time values with a sub-second part exist; Unix() floors.        *)
(*  - A byte string is a sequence of units.  A unit is a tagged tuple:     *)
(*    <<"lit", s>> a piece of JSON syntax, <<"ch", c>> an unescaped        *)
(*    character of a JSON string, <<"esc", c>> a \uXXXX escape of c,       *)
(*    <<"num", n>> a JSON number, <<"raw", c>> a byte that is none of      *)
(*    these, and <<"mac", k, d, i>> the i-th unit of the HMAC-SHA256 of    *)
(*    the data d under the block-sized key k (the MAC is collision free:   *)
(*    two MACs are equal exactly when block key and data are equal).       *)
(*  - A text string (token, Authorization header) is a sequence of         *)
(*    characters.  A character is <<"c", x>>, a plain character x, or      *)
(*    <<"b64", u>>, the base64url digits that encode the unit u.           *)
(*  - A common name and a secret are sequences of bytes: for a common      *)
(*    name "a" is an ASCII letter, "<" an ASCII character that             *)
(*    encoding/json escapes, "xFF" a byte that is not valid UTF-8 and      *)
(*    "uFFFD" the Unicode replacement character; for a secret the bytes    *)
(*    are 0 and 1.                                                         *)
(***************************************************************************)
EXTENDS Integers, Sequences, FiniteSets, TLC

\* ---------------------------------------------------------------- bounds
MaxTime == 2
MaxTTL == 2
TicksPerSec == 2
MaxCalls == 2
MaxFiles == 2
\* the units an HMAC-SHA256 value is written with (sha256.Size bytes)
MacUnits == 2

\* ------------------------------------------------------ program constants
\* sha256.BlockSize, the HMAC block size hmac.New pads or hashes the key to
BlockSize == 64
StatusUnauthorized == 401

\* ------------------------------------------------------------- utilities
RECURSIVE Concat(_)
Concat(ss) == IF ss = <<>> THEN <<>> ELSE Head(ss) \o Concat(Tail(ss))

\* a plain text literal: the sequence of the plain characters given
Txt(cs) == [i \in 1..Len(cs) |-> <<"c", cs[i]>>]

\* ---------------------------------------------------------------- errors
\* an error is its Error() text; the nil error is the empty text
Nil == <<>>
ErrInvalidToken ==
    Txt(<<"i", "n", "v", "a", "l", "i", "d", " ", "t", "o", "k", "e", "n", " ", "f", "o", "r", "m", "a", "t">>)
ErrInvalidSignature ==
    Txt(<<"i", "n", "v", "a", "l", "i", "d", " ", "t", "o", "k", "e", "n", " ", "s", "i", "g", "n", "a", "t", "u", "r", "e">>)
ErrTokenExpired ==
    Txt(<<"t", "o", "k", "e", "n", " ", "h", "a", "s", " ", "e", "x", "p", "i", "r", "e", "d">>)
ErrTokenRevoked ==
    Txt(<<"t", "o", "k", "e", "n", " ", "h", "a", "s", " ", "b", "e", "e", "n", " ", "r", "e", "v", "o", "k", "e", "d">>)

\* ------------------------------------------------------------ time.Time
\* Time.Unix(): whole seconds since the epoch, rounded down
Unix(t) == t \div TicksPerSec

\* ---------------------------------------------------------- encoding/json
\* json.Marshal of one byte of a Go string: invalid UTF-8 is coerced to
\* U+FFFD, the HTML characters are written as \u00XX escapes
JsonEscape(c) ==
    IF c = "xFF" THEN <<"esc", "uFFFD">>
    ELSE IF c = "<" THEN <<"esc", "<">>
    ELSE <<"ch", c>>

JsonUnescape(u) == u[2]

\* TokenClaims{CN, IAT, EXP}
TokenClaims(cn, iat, exp) == [CN |-> cn, IAT |-> iat, EXP |-> exp]

\* json.Marshal(claims): {"cn":"...","iat":N,"exp":M}
Marshal(claims) ==
    << <<"lit", "{cn:">> >>
    \o [i \in 1..Len(claims.CN) |-> JsonEscape(claims.CN[i])]
    \o << <<"lit", "iat:">>, <<"num", claims.IAT>>,
          <<"lit", "exp:">>, <<"num", claims.EXP>>, <<"lit", "}">> >>

IsClaimsJSON(p) ==
    LET n == Len(p) IN
    /\ n >= 6
    /\ p[1] = <<"lit", "{cn:">>
    /\ \A i \in 2..(n - 5) : p[i][1] \in {"ch", "esc"}
    /\ p[n - 4] = <<"lit", "iat:">>
    /\ p[n - 3][1] = "num"
    /\ p[n - 2] = <<"lit", "exp:">>
    /\ p[n - 1][1] = "num"
    /\ p[n] = <<"lit", "}">>

\* json.Unmarshal(payload, &claims): err is TRUE when the payload does not
\* parse, and then claims is the zero value
Unmarshal(p) ==
    IF IsClaimsJSON(p)
    THEN [err |-> FALSE,
          claims |-> TokenClaims([i \in 1..(Len(p) - 6) |-> JsonUnescape(p[i + 1])],
                                 p[Len(p) - 3][2], p[Len(p) - 1][2])]
    ELSE [err |-> TRUE, claims |-> TokenClaims(<<>>, 0, 0)]

\* -------------------------------------------------------- encoding/base64
\* the letters of the base64url alphabet that occur as plain characters
B64Letters == {"a", "b"}

\* base64.RawURLEncoding.EncodeToString
EncodeToString(bytes) == [i \in 1..Len(bytes) |-> <<"b64", bytes[i]>>]

IsB64Char(c) == c[1] = "b64" \/ (c[1] = "c" /\ c[2] \in B64Letters)

\* the characters the decoder skips wherever they stand: "\r" and "\n"
IsNewlineChar(c) == c[1] = "c" /\ c[2] \in {"\n", "\r"}

\* base64.RawURLEncoding.DecodeString: carriage returns and line feeds are
\* dropped from the input, err is TRUE on any other character outside the
\* alphabet
DecodeString(s) ==
    LET src == SelectSeq(s, LAMBDA c : ~IsNewlineChar(c)) IN
    IF \A i \in 1..Len(src) : IsB64Char(src[i])
    THEN [err |-> FALSE,
          bytes |-> [i \in 1..Len(src) |->
                        IF src[i][1] = "b64" THEN src[i][2]
                        ELSE <<"raw", src[i][2]>>]]
    ELSE [err |-> TRUE, bytes |-> <<>>]

\* ----------------------------------------------------------------- strings
Dot == <<"c", ".">>

\* strings.Split(s, "."): the segments between the dots, at least one
RECURSIVE Split(_)
Split(s) ==
    IF \A i \in 1..Len(s) : s[i] # Dot THEN <<s>>
    ELSE LET k == CHOOSE i \in 1..Len(s) :
                      s[i] = Dot /\ \A j \in 1..(i - 1) : s[j] # Dot
         IN <<SubSeq(s, 1, k - 1)>> \o Split(SubSeq(s, k + 1, Len(s)))

\* strings.HasPrefix / strings.TrimPrefix
HasPrefix(s, p) == Len(s) >= Len(p) /\ SubSeq(s, 1, Len(p)) = p
TrimPrefix(s, p) == IF HasPrefix(s, p) THEN SubSeq(s, Len(p) + 1, Len(s)) ELSE s

\* ------------------------------------------------------------ crypto/hmac
RECURSIVE StripZeros(_)
StripZeros(k) ==
    IF k # <<>> /\ k[Len(k)] = 0 THEN StripZeros(SubSeq(k, 1, Len(k) - 1)) ELSE k

\* The block key of hmac.New(sha256.New, secret): a secret of at most
\* BlockSize bytes is padded with zero bytes up to BlockSize (written here
\* without the trailing zeros), a longer one is replaced by its digest.
BlockKey(secret) ==
    IF Len(secret) > BlockSize THEN <<"sha256", secret>> ELSE StripZeros(secret)

\* mutant of computeHMAC: a digest of the data that no key enters
computeHMACUnkeyed(data, secret) ==
    [i \in 1..MacUnits |-> <<"mac", <<>>, data, i>>]

\* computeHMAC(data, secret)
computeHMAC(data, secret) ==
    [i \in 1..MacUnits |-> <<"mac", BlockKey(secret), data, i>>]

\* mutant of HmacEqual: the comparison of bytes.Equal, which stops at the
\* first unit that differs
HmacEqualEarlyExit(a, b) ==
    [eq |-> a = b,
     steps |-> IF Len(a) # Len(b) THEN 0
               ELSE IF a = b THEN Len(a)
               ELSE CHOOSE i \in 1..Len(a) :
                        a[i] # b[i] /\ \A j \in 1..(i - 1) : a[j] = b[j]]

\* hmac.Equal, that is subtle.ConstantTimeCompare: whether the two are
\* equal, and the units it has looked at to tell.  Slices of different
\* lengths are unequal at once; slices of one length are read to their end
HmacEqual(a, b) ==
    [eq |-> a = b, steps |-> IF Len(a) # Len(b) THEN 0 ELSE Len(a)]

\* --------------------------------------------------------------- token.go
\* GenerateToken(cn, expiresIn, secret) called when the clock reads t
GenerateToken(cn, expiresIn, secret, t) ==
    LET expiresAt == t + expiresIn
        claims == TokenClaims(cn, Unix(t), Unix(expiresAt))
        payload == Marshal(claims)
        payloadB64 == EncodeToString(payload)
        sig == computeHMAC(payload, secret)
        sigB64 == EncodeToString(sig)
    IN [token |-> payloadB64 \o <<Dot>> \o sigB64,
        expiresAt |-> expiresAt,
        err |-> Nil]

\* mutant of Expired: a token is refused from the first tick of the second it
\* expires in
ExpiredAtBoundary(t, claims) == Unix(t) >= claims.EXP

\* time.Now().Unix() > claims.EXP
Expired(t, claims) == Unix(t) > claims.EXP

NoClaims == [ok |-> FALSE, CN |-> <<>>, IAT |-> 0, EXP |-> 0]
Failed(e) == [claims |-> NoClaims, err |-> e, steps |-> 0]

\* mutant of ValidateToken: the expiry of the claims is never looked at
ValidateTokenNoExpiry(tokenString, secret, t) ==
    LET parts == Split(tokenString) IN
    IF Len(parts) # 2 THEN Failed(ErrInvalidToken)
    ELSE
    LET p == DecodeString(parts[1]) IN
    IF p.err THEN Failed(ErrInvalidToken)
    ELSE
    LET s == DecodeString(parts[2]) IN
    IF s.err THEN Failed(ErrInvalidToken)
    ELSE
    LET expectedSig == computeHMAC(p.bytes, secret)
        c == HmacEqual(s.bytes, expectedSig)
    IN
    IF ~c.eq THEN [Failed(ErrInvalidSignature) EXCEPT !.steps = c.steps]
    ELSE
    LET u == Unmarshal(p.bytes) IN
    IF u.err THEN [Failed(ErrInvalidToken) EXCEPT !.steps = c.steps]
    ELSE [claims |-> [ok |-> TRUE, CN |-> u.claims.CN,
                      IAT |-> u.claims.IAT, EXP |-> u.claims.EXP],
          err |-> Nil, steps |-> c.steps]

\* mutant of ValidateToken: the claims are parsed and their expiry checked
\* before the signatures are compared
ValidateTokenExpiryFirst(tokenString, secret, t) ==
    LET parts == Split(tokenString) IN
    IF Len(parts) # 2 THEN Failed(ErrInvalidToken)
    ELSE
    LET p == DecodeString(parts[1]) IN
    IF p.err THEN Failed(ErrInvalidToken)
    ELSE
    LET s == DecodeString(parts[2]) IN
    IF s.err THEN Failed(ErrInvalidToken)
    ELSE
    LET u == Unmarshal(p.bytes) IN
    IF u.err THEN Failed(ErrInvalidToken)
    ELSE IF Expired(t, u.claims) THEN Failed(ErrTokenExpired)
    ELSE
    LET expectedSig == computeHMAC(p.bytes, secret)
        c == HmacEqual(s.bytes, expectedSig)
    IN
    IF ~c.eq THEN [Failed(ErrInvalidSignature) EXCEPT !.steps = c.steps]
    ELSE [claims |-> [ok |-> TRUE, CN |-> u.claims.CN,
                      IAT |-> u.claims.IAT, EXP |-> u.claims.EXP],
          err |-> Nil, steps |-> c.steps]

\* ValidateToken(tokenString, secret) called when the clock reads t
ValidateToken(tokenString, secret, t) ==
    LET parts == Split(tokenString) IN
    IF Len(parts) # 2 THEN Failed(ErrInvalidToken)
    ELSE
    LET p == DecodeString(parts[1]) IN
    IF p.err THEN Failed(ErrInvalidToken)
    ELSE
    LET s == DecodeString(parts[2]) IN
    IF s.err THEN Failed(ErrInvalidToken)
    ELSE
    LET expectedSig == computeHMAC(p.bytes, secret)
        c == HmacEqual(s.bytes, expectedSig)
    IN
    IF ~c.eq THEN [Failed(ErrInvalidSignature) EXCEPT !.steps = c.steps]
    ELSE
    LET u == Unmarshal(p.bytes) IN
    IF u.err THEN [Failed(ErrInvalidToken) EXCEPT !.steps = c.steps]
    ELSE IF Expired(t, u.claims)
    THEN [Failed(ErrTokenExpired) EXCEPT !.steps = c.steps]
    ELSE [claims |-> [ok |-> TRUE, CN |-> u.claims.CN,
                      IAT |-> u.claims.IAT, EXP |-> u.claims.EXP],
          err |-> Nil, steps |-> c.steps]

\* ------------------------------------------------------------ input sets
\* common names: empty, a letter, a character json.Marshal escapes, a byte
\* that is not valid UTF-8
CNs == {<<>>, <<"a">>, <<"<">>, <<"xFF">>}
ValidUTF8(cn) == \A i \in 1..Len(cn) : cn[i] # "xFF"
\* secrets: empty, one byte, and one with a trailing zero byte
Secrets == {<<>>, <<0>>, <<1>>, <<1, 0>>}
TTLs == (0 - MaxTTL)..MaxTTL

\* sql.ErrNoRows, the error of the store's lookup
ErrNoRows ==
    Txt(<<"s", "q", "l", ":", " ", "n", "o", " ", "r", "o", "w", "s", " ", "i", "n", " ", "r", "e", "s", "u", "l", "t", " ", "s", "e", "t">>)

\* ------------------------------------------------------- security logger
\* length after which sanitize truncates a field
MaxFieldLen == 200
\* shortest run the hex and base64 alternatives of secretPattern match
MinSecretRun == 32
\* shortest tail the eyJ alternative of secretPattern matches
MinJwtTail == 20
\* longest "=" padding the base64 alternative of secretPattern takes
MaxPadding == 2

Digits == {"0", "1", "2", "3", "4", "5", "6", "7", "8", "9"}
HexLetters == {"a", "b", "c", "d", "e", "f", "A", "B", "C", "D", "E", "F"}
OtherLetters ==
    {"g", "h", "i", "j", "k", "l", "m", "n", "o", "p", "q", "r", "s", "t",
     "u", "v", "w", "x", "y", "z", "G", "H", "I", "J", "K", "L", "M", "N",
     "O", "P", "Q", "R", "S", "T", "U", "V", "W", "X", "Y", "Z"}
Alnum == Digits \cup HexLetters \cup OtherLetters

\* the character classes of secretPattern; base64url digits of an encoded
\* unit are letters and digits outside the hex range
InClass(c, cls) ==
    IF c[1] = "b64" THEN cls \in {"url", "std"}
    ELSE CASE cls = "hex" -> c[2] \in Digits \cup HexLetters
           [] cls = "url" -> c[2] \in Alnum \cup {"_", "-"}
           [] cls = "std" -> c[2] \in Alnum \cup {"+", "/"}
           [] cls = "eq" -> c[2] = "="

\* length of the longest run of characters of class cls that starts at s[i]
RunLen(s, i, cls) ==
    IF i > Len(s) \/ ~InClass(s[i], cls) THEN 0
    ELSE LET stops == {j \in i..Len(s) : ~InClass(s[j], cls)} IN
         IF stops = {} THEN Len(s) - i + 1
         ELSE (CHOOSE j \in stops : \A k \in stops : j <= k) - i

Min(a, b) == IF a < b THEN a ELSE b

\* length of the match of secretPattern that starts at s[i], 0 when there is
\* none: the first alternative that matches wins, each one greedy
\*   eyJ[A-Za-z0-9_-]{20,} | [A-Fa-f0-9]{32,} | [A-Za-z0-9+/]{32,}={0,2}
MatchLen(s, i) ==
    LET jwt == IF i + 2 <= Len(s) /\ SubSeq(s, i, i + 2) = Txt(<<"e", "y", "J">>)
               THEN RunLen(s, i + 3, "url") ELSE 0
        hex == RunLen(s, i, "hex")
        std == RunLen(s, i, "std")
    IN IF i + 2 <= Len(s) /\ SubSeq(s, i, i + 2) = Txt(<<"e", "y", "J">>)
          /\ jwt >= MinJwtTail
       THEN 3 + jwt
       ELSE IF hex >= MinSecretRun THEN hex
       ELSE IF std >= MinSecretRun
       THEN std + Min(MaxPadding, RunLen(s, i + std, "eq"))
       ELSE 0

Redacted == Txt(<<"[", "R", "E", "D", "A", "C", "T", "E", "D", "]">>)

\* secretPattern.ReplaceAllString(s, "[REDACTED]") from position i on: the
\* text up to the left-most match is kept, the match is replaced, and the
\* search goes on behind it
RECURSIVE ReplaceAllFrom(_, _)
ReplaceAllFrom(s, i) ==
    LET starts == {j \in i..Len(s) : MatchLen(s, j) > 0} IN
    IF starts = {} THEN SubSeq(s, i, Len(s))
    ELSE LET j == CHOOSE j \in starts : \A k \in starts : j <= k IN
         SubSeq(s, i, j - 1) \o Redacted \o ReplaceAllFrom(s, j + MatchLen(s, j))

\* sanitize(s)
sanitize(s) ==
    LET cut == IF Len(s) > MaxFieldLen
               THEN SubSeq(s, 1, MaxFieldLen) \o Txt(<<".", ".", ".">>)
               ELSE s
    IN ReplaceAllFrom(cut, 1)

\* SecurityEvent; Timestamp is time.Now().UTC().Format(time.RFC3339), which
\* keeps whole seconds
SecurityEvent(t, event, userCN, method, tokenID, sourceIP, reason, details) ==
    [Timestamp |-> Unix(t), Event |-> event, UserCN |-> userCN,
     AuthMethod |-> method, TokenID |-> tokenID, SourceIP |-> sourceIP,
     Reason |-> reason, Details |-> details]

\* FileSecurityLogger.LogAuthSuccess: the event handed to log
LogAuthSuccess(user, sourceIP, t) ==
    SecurityEvent(t, "auth_success", user.CN, user.AuthMethod, user.TokenID,
                  sourceIP, "", <<>>)

\* FileSecurityLogger.LogAuthFailure: the event handed to log
LogAuthFailure(reason, details, sourceIP, t) ==
    SecurityEvent(t, "auth_failure", <<>>, "", "", sourceIP, reason,
                  sanitize(details))

\* --------------------------------------------------------------- identity
TimeZero == [isZero |-> TRUE, ticks |-> 0]
TimeAt(t) == [isZero |-> FALSE, ticks |-> t]

UserContext(cn, dn, serial, notAfter, method, tokenID) ==
    [CN |-> cn, DN |-> dn, Serial |-> serial, NotAfter |-> notAfter,
     AuthMethod |-> method, TokenID |-> tokenID]

\* pkix.Name.String() of a subject whose only attribute is the common
\* name: empty for an empty subject, else CN= and the escaped value
DNString(cn) ==
    IF cn = <<>> THEN <<>>
    ELSE <<"C", "N", "=">>
         \o Concat([i \in 1..Len(cn) |->
                       IF cn[i] = "<" THEN <<"\\", "<">> ELSE <<cn[i]>>])

\* ExtractUserFromCert(r): the empty sequence is the nil result
ExtractUserFromCert(r) ==
    IF ~r.TLS.present \/ Len(r.TLS.PeerCertificates) = 0 THEN <<>>
    ELSE LET cert == r.TLS.PeerCertificates[1] IN
         << UserContext(cert.CommonName, DNString(cert.CommonName), cert.Serial,
                        TimeAt(cert.NotAfter), "cert", "") >>

\* SingleUserContext()
SingleUserContext ==
    UserContext(<<"s", "i", "n", "g", "l", "e", "-", "u", "s", "e", "r", "-",
                  "m", "o", "d", "e">>,
                <<>>, "", TimeZero, "none", "")

\* ------------------------------------------------------- ExtractSourceIP
Space == <<"c", " ">>
Comma == <<"c", ",">>

\* strings.TrimSpace
RECURSIVE TrimSpace(_)
TrimSpace(s) ==
    IF s # <<>> /\ Head(s) = Space THEN TrimSpace(Tail(s))
    ELSE IF s # <<>> /\ s[Len(s)] = Space THEN TrimSpace(SubSeq(s, 1, Len(s) - 1))
    ELSE s

\* strings.Index(s, ","): 0 stands for -1, else the position of the first comma
IndexComma(s) ==
    IF \A i \in 1..Len(s) : s[i] # Comma THEN 0
    ELSE CHOOSE i \in 1..Len(s) : s[i] = Comma /\ \A j \in 1..(i - 1) : s[j] # Comma

\* mutant of ExtractSourceIP: the headers are consulted whatever trustProxy
ExtractSourceIPTrusting(r, trustProxy) ==
    IF r.XForwardedFor # <<>>
    THEN LET idx == IndexComma(r.XForwardedFor) IN
         IF idx # 0 THEN TrimSpace(SubSeq(r.XForwardedFor, 1, idx - 1))
         ELSE TrimSpace(r.XForwardedFor)
    ELSE IF r.XRealIP # <<>> THEN r.XRealIP
    ELSE r.RemoteAddr

\* ExtractSourceIP(r, trustProxy); an absent header reads as the empty text
ExtractSourceIP(r, trustProxy) ==
    IF trustProxy /\ r.XForwardedFor # <<>>
    THEN LET idx == IndexComma(r.XForwardedFor) IN
         IF idx # 0 THEN TrimSpace(SubSeq(r.XForwardedFor, 1, idx - 1))
         ELSE TrimSpace(r.XForwardedFor)
    ELSE IF trustProxy /\ r.XRealIP # <<>> THEN r.XRealIP
    ELSE r.RemoteAddr

\* ------------------------------------------------------------ middleware
\* MiddlewareConfig; TokenValidator and Logger are TRUE when configured
\* (non-nil)
MiddlewareConfig(secret, validator, logger, authEnabled, trustProxy) ==
    [Secret |-> secret, TokenValidator |-> validator, Logger |-> logger,
     AuthEnabled |-> authEnabled, TrustProxy |-> trustProxy]

\* mutant of Bearer: the prefix without its space
BearerNoSpace == Txt(<<"B", "e", "a", "r", "e", "r">>)

\* the prefix "Bearer " of a bearer credential
Bearer == Txt(<<"B", "e", "a", "r", "e", "r", " ">>)
Newline == <<"c", "\n">>
Unauthorized == Txt(<<"U", "n", "a", "u", "t", "h", "o", "r", "i", "z", "e", "d">>)
CertRequired ==
    Txt(<<"C", "l", "i", "e", "n", "t", " ", "c", "e", "r", "t", "i", "f", "i",
          "c", "a", "t", "e", " ", "r", "e", "q", "u", "i", "r", "e", "d">>)
TokenNotAccepted ==
    Txt(<<"t", "o", "k", "e", "n", " ", "a", "u", "t", "h", " ", "n", "o", "t",
          " ", "a", "c", "c", "e", "p", "t", "e", "d">>)

\* What one run of a handler has done: the response it wrote (status 0:
\* nothing written by the middleware), how often it called next.ServeHTTP
\* and with which identity in the request context (user, empty: none), the
\* events it handed to the logger, and its calls of ValidateToken and of the
\* TokenValidator callback
NoResponse ==
    [status |-> 0, body |-> <<>>, ContentType |-> "",
     XAuthUser |-> <<>>, XAuthMethod |-> "",
     next |-> 0, user |-> <<>>, events |-> <<>>,
     validateCalls |-> 0, validatorCalls |-> 0]

\* cfg.Logger != nil guards every logger call
Emit(cfg, w, ev) == IF cfg.Logger THEN [w EXCEPT !.events = @ \o <<ev>>] ELSE w

\* http.Error(w, msg, code)
HttpError(w, msg, code) ==
    [w EXCEPT !.status = code, !.body = msg \o <<Newline>>,
              !.ContentType = "text/plain; charset=utf-8"]

\* mutant of ServeNext: next is given the request as it came, without the
\* context that carries the identity
ServeNextNoContext(w, user) == [w EXCEPT !.next = @ + 1]

\* ctx := WithUser(r.Context(), user); next.ServeHTTP(w, r.WithContext(ctx))
ServeNext(w, user) == [w EXCEPT !.next = @ + 1, !.user = <<user>>]

\* w.Header().Set("X-Auth-User", user.CN); w.Header().Set("X-Auth-Method", m)
SetAuthHeaders(w, user, method) ==
    [w EXCEPT !.XAuthUser = <<user.CN>>, !.XAuthMethod = method]

\* the certificate branch: log, attach, set the markers, call next
AuthenticateCert(cfg, user, sourceIP, t) ==
    ServeNext(SetAuthHeaders(
        Emit(cfg, NoResponse, LogAuthSuccess(user, sourceIP, t)), user, "cert"),
        user)

\* mutant of RejectInvalidToken: the error text is sent as the response body
RejectInvalidTokenLeaky(cfg, w, err, sourceIP, t) ==
    HttpError(Emit(cfg, w, LogAuthFailure("invalid_token", err, sourceIP, t)),
              err, StatusUnauthorized)

\* ValidateToken returned err: log it and answer 401
RejectInvalidToken(cfg, w, err, sourceIP, t) ==
    HttpError(Emit(cfg, w, LogAuthFailure("invalid_token", err, sourceIP, t)),
              Unauthorized, StatusUnauthorized)

\* mutant of RejectRevoked: the reason of the branch above, copied
RejectRevokedAsInvalid(cfg, w, err, sourceIP, t) ==
    HttpError(Emit(cfg, w, LogAuthFailure("invalid_token", err, sourceIP, t)),
              Unauthorized, StatusUnauthorized)

\* mutant of RejectRevoked: the response body tells the caller that the
\* token was revoked
RejectRevokedTelling(cfg, w, err, sourceIP, t) ==
    HttpError(Emit(cfg, w, LogAuthFailure("token_revoked", err, sourceIP, t)),
              ErrTokenRevoked, StatusUnauthorized)

\* the TokenValidator callback returned err: log it and answer 401
RejectRevoked(cfg, w, err, sourceIP, t) ==
    HttpError(Emit(cfg, w, LogAuthFailure("token_revoked", err, sourceIP, t)),
              Unauthorized, StatusUnauthorized)

\* mutant of TokenUser: the token id of the callback is dropped
TokenUserNoID(claims, tokenID) ==
    UserContext(claims.CN, <<>>, "", TimeZero, "token", "")

\* the identity of a token-authenticated caller
TokenUser(claims, tokenID) ==
    UserContext(claims.CN, <<>>, "", TimeZero, "token", tokenID)

\* mutant of AuthenticateToken: the success of a token is not logged
AuthenticateTokenSilent(cfg, w, user, sourceIP, t) ==
    ServeNext(SetAuthHeaders(w, user, "token"), user)

\* the end of the bearer branch: log, attach, set the markers, call next
AuthenticateToken(cfg, w, user, sourceIP, t) ==
    ServeNext(SetAuthHeaders(
        Emit(cfg, w, LogAuthSuccess(user, sourceIP, t)), user, "token"), user)

\* neither credential
RejectNoCredentials(cfg, sourceIP, t) ==
    HttpError(Emit(cfg, NoResponse,
                   LogAuthFailure("no_credentials", <<>>, sourceIP, t)),
              Unauthorized, StatusUnauthorized)

\* no certificate on the certificate-only route
RejectCertRequired(cfg, sourceIP, t) ==
    HttpError(Emit(cfg, NoResponse,
                   LogAuthFailure("cert_required", TokenNotAccepted, sourceIP, t)),
              CertRequired, StatusUnauthorized)

\* mutant of Middleware: the bearer credential is tried before the certificate
MiddlewareTokenFirst(cfg, r, t, vans) ==
    LET sourceIP == ExtractSourceIP(r, cfg.TrustProxy)
        certUser == ExtractUserFromCert(r)
        auth == r.Authorization
        tokenStr == TrimPrefix(auth, Bearer)
        v == ValidateToken(tokenStr, cfg.Secret, t)
        validated == [NoResponse EXCEPT !.validateCalls = @ + 1]
        asked == [validated EXCEPT !.validatorCalls = @ + 1]
    IN
    IF ~cfg.AuthEnabled THEN ServeNext(NoResponse, SingleUserContext)
    ELSE IF HasPrefix(auth, Bearer)
    THEN IF v.err # Nil
         THEN RejectInvalidToken(cfg, validated, v.err, sourceIP, t)
         ELSE IF cfg.TokenValidator
         THEN IF vans.err # Nil
              THEN RejectRevoked(cfg, asked, vans.err, sourceIP, t)
              ELSE AuthenticateToken(cfg, asked, TokenUser(v.claims, vans.id),
                                     sourceIP, t)
         ELSE AuthenticateToken(cfg, validated, TokenUser(v.claims, ""),
                                sourceIP, t)
    ELSE IF certUser # <<>> THEN AuthenticateCert(cfg, certUser[1], sourceIP, t)
    ELSE RejectNoCredentials(cfg, sourceIP, t)

\* The handler Middleware(cfg)(next) serving request r when the clock reads
\* t; vans is what the TokenValidator callback answers if it is called
Middleware(cfg, r, t, vans) ==
    LET sourceIP == ExtractSourceIP(r, cfg.TrustProxy)
        certUser == ExtractUserFromCert(r)
        auth == r.Authorization
        tokenStr == TrimPrefix(auth, Bearer)
        v == ValidateToken(tokenStr, cfg.Secret, t)
        validated == [NoResponse EXCEPT !.validateCalls = @ + 1]
        asked == [validated EXCEPT !.validatorCalls = @ + 1]
    IN
    IF ~cfg.AuthEnabled THEN ServeNext(NoResponse, SingleUserContext)
    ELSE IF certUser # <<>> THEN AuthenticateCert(cfg, certUser[1], sourceIP, t)
    ELSE IF HasPrefix(auth, Bearer)
    THEN IF v.err # Nil
         THEN RejectInvalidToken(cfg, validated, v.err, sourceIP, t)
         ELSE IF cfg.TokenValidator
         THEN IF vans.err # Nil
              THEN RejectRevoked(cfg, asked, vans.err, sourceIP, t)
              ELSE AuthenticateToken(cfg, asked, TokenUser(v.claims, vans.id),
                                     sourceIP, t)
         ELSE AuthenticateToken(cfg, validated, TokenUser(v.claims, ""),
                                sourceIP, t)
    ELSE RejectNoCredentials(cfg, sourceIP, t)

\* mutant of RequireCertAuth: the route is wrapped in Middleware instead
RequireCertAuthAsMiddleware(cfg, r, t) ==
    Middleware(cfg, r, t, [id |-> "tok_1", err |-> Nil])

\* mutant of RequireCertAuth: the check of cfg.AuthEnabled is missing
RequireCertAuthAlwaysOn(cfg, r, t) ==
    LET sourceIP == ExtractSourceIP(r, cfg.TrustProxy)
        certUser == ExtractUserFromCert(r)
    IN
    IF certUser # <<>> THEN AuthenticateCert(cfg, certUser[1], sourceIP, t)
    ELSE RejectCertRequired(cfg, sourceIP, t)

\* The handler RequireCertAuth(cfg)(next) serving request r at time t
RequireCertAuth(cfg, r, t) ==
    LET sourceIP == ExtractSourceIP(r, cfg.TrustProxy)
        certUser == ExtractUserFromCert(r)
    IN
    IF ~cfg.AuthEnabled THEN ServeNext(NoResponse, SingleUserContext)
    ELSE IF certUser # <<>> THEN AuthenticateCert(cfg, certUser[1], sourceIP, t)
    ELSE RejectCertRequired(cfg, sourceIP, t)

\* ------------------------------------------------------------ store.go
\* time.Time.Format(time.RFC3339) of a UTC time: the text keeps the whole
\* seconds; two such texts compare as their seconds do
FormatRFC3339(t) == Unix(t)

\* HashToken(token): the SHA-256 digest of the token text (collision free)
HashToken(token) == <<"sha256", token>>

\* the NULL of a last_used_at column
Null == 0 - 1

\* Store.CreateToken(id, userCN, name, tokenHash, expiresAt) at time t: the
\* insert fails when a row has the id already (id is the primary key)
CreateToken(tab, id, userCN, name, tokenHash, expiresAt, t) ==
    IF \E row \in tab : row.id = id
    THEN [err |-> TRUE, tokens |-> tab]
    ELSE [err |-> FALSE,
          tokens |-> tab \cup {[id |-> id, user_cn |-> userCN, name |-> name,
                               token_hash |-> tokenHash,
                               created_at |-> FormatRFC3339(t),
                               expires_at |-> FormatRFC3339(expiresAt),
                               last_used_at |-> Null]}]

\* Store.ListTokens(userCN): the rows of the user
ListTokens(tab, userCN) == {row \in tab : row.user_cn = userCN}

\* mutant of DeleteToken: the row with the id is deleted whoever owns it
DeleteTokenOfAnyOwner(tab, id, userCN) ==
    LET hit == {row \in tab : row.id = id} IN
    [err |-> IF hit = {} THEN ErrNoRows ELSE Nil, tokens |-> tab \ hit]

\* Store.DeleteToken(id, userCN): sql.ErrNoRows when no row was deleted
DeleteToken(tab, id, userCN) ==
    LET hit == {row \in tab : row.id = id /\ row.user_cn = userCN} IN
    [err |-> IF hit = {} THEN ErrNoRows ELSE Nil, tokens |-> tab \ hit]

\* the rows the SELECT of ValidateTokenHash matches at time t
MatchingRows(tab, tokenHash, t) ==
    {row \in tab : row.token_hash = tokenHash
                   /\ row.expires_at > FormatRFC3339(t)}

\* the UPDATE of ValidateTokenHash: last_used_at of every row with the hash
TouchLastUsed(tab, tokenHash, t) ==
    {IF row.token_hash = tokenHash
     THEN [row EXCEPT !.last_used_at = FormatRFC3339(t)] ELSE row : row \in tab}

\* Store.ValidateTokenHash(tokenHash) at time t: the outcomes it can have.
\* QueryRow scans the id of one of the matching rows (which one, the query
\* does not say) and last_used_at is updated; no matching row is
\* sql.ErrNoRows
ValidateTokenHash(tab, tokenHash, t) ==
    IF MatchingRows(tab, tokenHash, t) = {}
    THEN {[id |-> "", err |-> ErrNoRows, tokens |-> tab]}
    ELSE {[id |-> row.id, err |-> Nil,
           tokens |-> TouchLastUsed(tab, tokenHash, t)] :
             row \in MatchingRows(tab, tokenHash, t)}

\* -------------------------------------------------------------- main.go
\* the tokenValidator closure of main: the outcomes of
\* s.ValidateTokenHash(auth.HashToken(token))
tokenValidator(tab, token, t) == ValidateTokenHash(tab, HashToken(token), t)

\* the secret main reads from the config table
StoredSecret == <<1>>

\* the values crypto/rand can give a new secret (32 random bytes)
NewSecrets == {<<1>>, <<2>>}

\* Store.GetOrCreateTokenSecret() on a config table whose token_secret row
\* is config (empty: no row): the outcomes it can have.  The lookup fails;
\* or it finds the row; or it finds none and then the random generation
\* fails, the insert fails, or the new secret is stored and returned
GetOrCreateTokenSecret(config) ==
    {[secret |-> <<>>, err |-> "query secret", config |-> config]}
    \cup (IF config # <<>>
          THEN {[secret |-> config[1], err |-> "", config |-> config]}
          ELSE {[secret |-> <<>>, err |-> e, config |-> config] :
                   e \in {"generate secret", "store secret"}}
               \cup {[secret |-> n, err |-> "", config |-> <<n>>] :
                        n \in NewSecrets})

\* middlewareCfg of main with authentication enabled: the secret, the
\* tokenValidator closure, the security logger; TrustProxy is left false
middlewareCfg == MiddlewareConfig(StoredSecret, TRUE, TRUE, TRUE, FALSE)

\* the server process: where main is and what it has set up (-ca given or
\* not, the secret it obtained)
VARIABLE proc

\* authCfg of main as api.NewWithAuth keeps it: with authentication
\* enabled the secret and the security logger, without it the zero value;
\* the flags -token-ttl and -token-max-ttl, and the defaults NewWithAuth
\* puts for them in the zero value, are MaxTTL
authCfg ==
    [Enabled |-> proc.authEnabled,
     Secret |-> IF proc.authEnabled THEN proc.secret ELSE <<>>,
     DefaultTTL |-> MaxTTL, MaxTTL |-> MaxTTL,
     Logger |-> proc.authEnabled, TrustProxy |-> FALSE]

\* --------------------------------------------------------------- api.go
StatusCreated == 201
StatusNoContent == 204
StatusBadRequest == 400
StatusNotFound == 404
StatusInternalServerError == 500

\* the texts of the handlers' error responses
CertRequiredToCreate ==
    Txt(<<"C", "l", "i", "e", "n", "t", " ", "c", "e", "r", "t", "i", "f",
          "i", "c", "a", "t", "e", " ", "r", "e", "q", "u", "i", "r", "e",
          "d", " ", "t", "o", " ", "c", "r", "e", "a", "t", "e", " ", "t",
          "o", "k", "e", "n", "s">>)
CertRequiredToDelete ==
    Txt(<<"C", "l", "i", "e", "n", "t", " ", "c", "e", "r", "t", "i", "f",
          "i", "c", "a", "t", "e", " ", "r", "e", "q", "u", "i", "r", "e",
          "d", " ", "t", "o", " ", "d", "e", "l", "e", "t", "e", " ", "t",
          "o", "k", "e", "n", "s">>)
InvalidJSONText ==
    Txt(<<"i", "n", "v", "a", "l", "i", "d", " ", "J", "S", "O", "N">>)
NameRequired ==
    Txt(<<"n", "a", "m", "e", " ", "i", "s", " ", "r", "e", "q", "u", "i",
          "r", "e", "d">>)
InvalidExpiresIn ==
    Txt(<<"i", "n", "v", "a", "l", "i", "d", " ", "e", "x", "p", "i", "r",
          "e", "s", "_", "i", "n", " ", "d", "u", "r", "a", "t", "i", "o",
          "n">>)
ExpiresInNotPositive ==
    Txt(<<"e", "x", "p", "i", "r", "e", "s", "_", "i", "n", " ", "m", "u",
          "s", "t", " ", "b", "e", " ", "p", "o", "s", "i", "t", "i", "v",
          "e">>)
FailedToStore ==
    Txt(<<"f", "a", "i", "l", "e", "d", " ", "t", "o", " ", "s", "t", "o",
          "r", "e", " ", "t", "o", "k", "e", "n">>)
TokenNotFound ==
    Txt(<<"t", "o", "k", "e", "n", " ", "n", "o", "t", " ", "f", "o", "u",
          "n", "d">>)

\* FileSecurityLogger.LogTokenCreated: the event handed to log
LogTokenCreated(userCN, tokenID, tokenName, expiresAt, sourceIP, t) ==
    SecurityEvent(t, "token_created", userCN, "", tokenID, sourceIP, "",
                  Txt(<<"n", "a", "m", "e", "=">>) \o sanitize(tokenName)
                  \o Txt(<<",", " ", "e", "x", "p", "i", "r", "e", "s", "=">>)
                  \o << <<"rfc3339", expiresAt>> >>)

\* FileSecurityLogger.LogTokenRevoked: the event handed to log
LogTokenRevoked(userCN, tokenID, sourceIP, t) ==
    SecurityEvent(t, "token_revoked", userCN, "", tokenID, sourceIP, "", <<>>)

\* FileSecurityLogger.LogServerStart: the event handed to log
LogServerStart(mode, caFile, t) ==
    SecurityEvent(t, "server_start", <<>>, "", "", <<>>, <<>>,
                  Txt(<<"m", "o", "d", "e", "=">>) \o mode
                  \o (IF caFile # <<>>
                      THEN Txt(<<",", " ", "c", "a", "=">>) \o caFile
                      ELSE <<>>))

\* FileSecurityLogger.LogServerStop: the event handed to log
LogServerStop(reason, t) ==
    SecurityEvent(t, "server_stop", <<>>, "", "", <<>>, reason, <<>>)

\* s.authCfg.Logger != nil guards the logger calls of the handlers
EmitApi(w, ev) == IF authCfg.Logger THEN [w EXCEPT !.events = @ \o <<ev>>] ELSE w

\* w.WriteHeader(code) and the JSON value encoded into the body
WriteJSON(w, code, value) ==
    [w EXCEPT !.status = code, !.body = <<value>>,
              !.ContentType = "application/json"]

\* what a handler leaves behind: the response and the token table
Handled(w, tab) == [w |-> w, tokens |-> tab]

\* mutant of TokenAuthRefused: a token may mint and revoke tokens
TokenAuthAllowed(user) == FALSE

\* s.authCfg.Enabled && user.AuthMethod != "cert" && user.AuthMethod != "none"
TokenAuthRefused(user) ==
    authCfg.Enabled /\ user.AuthMethod # "cert" /\ user.AuthMethod # "none"

\* mutant of EnforceMaxTTL: the lifetime asked for is taken as it is
EnforceNoMaxTTL(ttl) == ttl

\* handleCreateToken: if ttl > s.authCfg.MaxTTL { ttl = s.authCfg.MaxTTL }
EnforceMaxTTL(ttl) == IF ttl > authCfg.MaxTTL THEN authCfg.MaxTTL ELSE ttl

\* the body of POST /api/tokens that does not decode
InvalidJSON == [valid |-> FALSE, Name |-> <<>>, ExpiresIn |-> [kind |-> "absent", d |-> 0]]

\* handleCreateToken, entered with the response w of the middleware and the
\* identity it put in the context (user, empty: none); tokenID is what
\* GenerateTokenID returns
handleCreateToken(w, user, r, tab, t, tokenID) ==
    IF user = <<>> THEN Handled(HttpError(w, Unauthorized, StatusUnauthorized), tab)
    ELSE IF TokenAuthRefused(user[1])
    THEN Handled(HttpError(w, CertRequiredToCreate, StatusUnauthorized), tab)
    ELSE IF ~r.Body.valid
    THEN Handled(HttpError(w, InvalidJSONText, StatusBadRequest), tab)
    ELSE IF TrimSpace(r.Body.Name) = <<>>
    THEN Handled(HttpError(w, NameRequired, StatusBadRequest), tab)
    ELSE IF r.Body.ExpiresIn.kind = "bad"
    THEN Handled(HttpError(w, InvalidExpiresIn, StatusBadRequest), tab)
    ELSE IF r.Body.ExpiresIn.kind = "duration" /\ r.Body.ExpiresIn.d <= 0
    THEN Handled(HttpError(w, ExpiresInNotPositive, StatusBadRequest), tab)
    ELSE
    LET asked == IF r.Body.ExpiresIn.kind = "duration"
                 THEN r.Body.ExpiresIn.d ELSE authCfg.DefaultTTL
        ttl == EnforceMaxTTL(asked)
        g == GenerateToken(user[1].CN, ttl, authCfg.Secret, t)
        tokenHash == HashToken(g.token)
        c == CreateToken(tab, tokenID, user[1].CN, r.Body.Name, tokenHash,
                         g.expiresAt, t)
    IN
    IF c.err
    THEN Handled(HttpError(w, FailedToStore, StatusInternalServerError), tab)
    ELSE Handled(
            WriteJSON(EmitApi(w, LogTokenCreated(
                                     user[1].CN, tokenID, r.Body.Name,
                                     FormatRFC3339(g.expiresAt),
                                     ExtractSourceIP(r, authCfg.TrustProxy), t)),
                      StatusCreated,
                      [ID |-> tokenID, Name |-> r.Body.Name, Token |-> g.token,
                       CreatedAt |-> t, ExpiresAt |-> g.expiresAt]),
            c.tokens)

\* handleListTokens
handleListTokens(w, user, r, tab, t) ==
    IF user = <<>> THEN Handled(HttpError(w, Unauthorized, StatusUnauthorized), tab)
    ELSE Handled(WriteJSON(w, 200,
                           {[id |-> row.id, user_cn |-> row.user_cn,
                             name |-> row.name, created_at |-> row.created_at,
                             expires_at |-> row.expires_at,
                             last_used_at |-> row.last_used_at] :
                               row \in ListTokens(tab, user[1].CN)}),
                 tab)

\* handleDeleteToken; r.PathValue("id") is r.id
handleDeleteToken(w, user, r, tab, t) ==
    IF user = <<>> THEN Handled(HttpError(w, Unauthorized, StatusUnauthorized), tab)
    ELSE IF TokenAuthRefused(user[1])
    THEN Handled(HttpError(w, CertRequiredToDelete, StatusUnauthorized), tab)
    ELSE
    LET del == DeleteToken(tab, r.id, user[1].CN) IN
    IF del.err = ErrNoRows
    THEN Handled(HttpError(w, TokenNotFound, StatusNotFound), tab)
    ELSE Handled(
            [EmitApi(w, LogTokenRevoked(user[1].CN, r.id,
                                        ExtractSourceIP(r, authCfg.TrustProxy), t))
                EXCEPT !.status = StatusNoContent],
            del.tokens)

\* the routes of the server's mux that deal with tokens
Routes == {"POST /api/tokens", "GET /api/tokens", "DELETE /api/tokens/{id}"}

\* the request lines of the model: the method and the path, in segments
MethodOf(route) ==
    CASE route \in {"POST /api/tokens", "POST /api/health"} -> "POST"
      [] route = "DELETE /api/tokens/{id}" -> "DELETE"
      [] OTHER -> "GET"
PathOf(route) ==
    CASE route \in {"POST /api/tokens", "GET /api/tokens"} -> <<"api", "tokens">>
      [] route = "DELETE /api/tokens/{id}" -> <<"api", "tokens", "{id}">>
      [] route \in {"GET /api/health", "POST /api/health"} -> <<"api", "health">>
      [] route = "GET /api/status" -> <<"api", "status">>
      [] route = "GET /api/whoami" -> <<"api", "whoami">>
      [] route = "GET /api/items" -> <<"api", "items">>
      [] OTHER -> <<"index.html">>

\* a pattern of a ServeMux: "METHOD /path" matches the method and the whole
\* path, "/path/" every path under it with any method
Pattern(method, path, subtree, handler) ==
    [method |-> method, path |-> path, subtree |-> subtree, handler |-> handler]
Matches(pat, route) ==
    /\ pat.method = "" \/ pat.method = MethodOf(route)
    /\ IF pat.subtree THEN HasPrefix(PathOf(route), pat.path)
       ELSE PathOf(route) = pat.path
\* the pattern a ServeMux picks: of those that match, the most specific
\* one; none: the empty sequence
Pick(patterns, route) ==
    LET m == {pat \in patterns : Matches(pat, route)}
        rank(pat) == 2 * Len(pat.path) + (IF pat.subtree THEN 0 ELSE 1)
    IN IF m = {} THEN <<>>
       ELSE <<CHOOSE pat \in m : \A q \in m : rank(q) <= rank(pat)>>

\* Server.routes: the patterns of the API server's own mux
routes ==
    {Pattern("GET", <<"api", "status">>, FALSE, "HandleStatus"),
     Pattern("GET", <<"api", "health">>, FALSE, "HandleHealth"),
     Pattern("GET", <<"api", "items">>, FALSE, "handleListItems"),
     Pattern("GET", <<"api", "whoami">>, FALSE, "handleWhoAmI"),
     Pattern("POST", <<"api", "tokens">>, FALSE, "handleCreateToken"),
     Pattern("GET", <<"api", "tokens">>, FALSE, "handleListTokens"),
     Pattern("DELETE", <<"api", "tokens", "{id}">>, FALSE, "handleDeleteToken")}

StatusOK == 200
StatusMethodNotAllowed == 405

\* HandleHealth, HandleStatus, handleListItems: a JSON answer that does not
\* look at the caller
HandleOpen(w, tab) == Handled(WriteJSON(w, StatusOK, "ok"), tab)

\* handleWhoAmI
handleWhoAmI(w, user, tab) ==
    IF user = <<>>
    THEN IF ~authCfg.Enabled
         THEN Handled(WriteJSON(w, StatusOK,
                                [CN |-> SingleUserContext.CN, AuthMethod |-> "none",
                                 Mode |-> "single-user"]), tab)
         ELSE Handled(HttpError(w, Unauthorized, StatusUnauthorized), tab)
    ELSE Handled(WriteJSON(w, StatusOK,
                           [CN |-> user[1].CN, AuthMethod |-> user[1].AuthMethod,
                            Mode |-> IF user[1].AuthMethod = "none"
                                     THEN "single-user" ELSE "authenticated"]),
                 tab)

\* Server.ServeHTTP: the handler of the request's route; a path that is
\* registered with other methods only is answered 405, any other 404
ServeHTTP(w, user, r, tab, t, tokenID) ==
    LET pat == Pick(routes, r.Route) IN
    IF pat = <<>>
    THEN IF \E q \in routes : q.path = PathOf(r.Route)
         THEN Handled([w EXCEPT !.status = StatusMethodNotAllowed], tab)
         ELSE Handled([w EXCEPT !.status = StatusNotFound], tab)
    ELSE CASE pat[1].handler = "handleCreateToken" ->
                 handleCreateToken(w, user, r, tab, t, tokenID)
           [] pat[1].handler = "handleListTokens" ->
                 handleListTokens(w, user, r, tab, t)
           [] pat[1].handler = "handleDeleteToken" ->
                 handleDeleteToken(w, user, r, tab, t)
           [] pat[1].handler = "handleWhoAmI" -> handleWhoAmI(w, user, tab)
           [] OTHER -> HandleOpen(w, tab)

\* the API server behind a middleware whose run on r is w: it is called if
\* the middleware called next, with the identity the middleware attached;
\* the table is the one the tokenValidator closure left if it was called
Behind(w, r, tab, t, vout, tokenID) ==
    LET tab1 == IF w.validatorCalls > 0 THEN vout.tokens ELSE tab
    IN IF w.next = 0 THEN Handled(w, tab1)
       ELSE ServeHTTP(w, w.user, r, tab1, t, tokenID)

\* mutant of apiHandler: the API server is mounted without the middleware
apiHandlerBare(r, tab, t, vout, tokenID) ==
    ServeHTTP(NoResponse, <<>>, r, tab, t, tokenID)

\* apiHandler of main, auth.Middleware(middlewareCfg)(apiServer), serving r
\* at time t; vout is the outcome of the tokenValidator closure if the
\* middleware calls it
apiHandler(r, tab, t, vout, tokenID) ==
    Behind(Middleware(middlewareCfg, r, t, [id |-> vout.id, err |-> vout.err]),
           r, tab, t, vout, tokenID)

\* the patterns of main's mux
muxPatterns ==
    {Pattern("GET", <<"api", "health">>, FALSE, "HandleHealth"),
     Pattern("GET", <<"api", "status">>, FALSE, "HandleStatus"),
     Pattern("", <<"api">>, TRUE, "apiHandler"),
     Pattern("", <<>>, TRUE, "static")}

\* what a handler picked by the mux has done
Routed(handler, h) == [handler |-> handler, w |-> h.w, tokens |-> h.tokens]

\* main's mux serving r: the handler it picks and what that handler does
mux(r, tab, t, vout, tokenID) ==
    LET handler == Pick(muxPatterns, r.Route)[1].handler IN
    Routed(handler,
           CASE handler = "apiHandler" -> apiHandler(r, tab, t, vout, tokenID)
             [] handler \in {"HandleHealth", "HandleStatus"} ->
                   HandleOpen(NoResponse, tab)
             [] OTHER ->
                   Handled([NoResponse EXCEPT !.status = StatusOK,
                                              !.ContentType = "text/html"], tab))

\* ----------------------------------------------- logging.go: log, Reopen
\* The file system as the logger sees it: inodeAtPath is the file the log
\* path names (0: none, the file was renamed away), files[i] is what has
\* been written to file i, handles[h] is the *os.File h: the file it was
\* opened on and whether it is still open.

\* os.OpenFile(path, O_APPEND|O_CREATE|O_WRONLY, 0600): the outcomes it can
\* have.  It fails, or it opens the file the path names, which it creates
\* empty when there is none; nothing is ever truncated
OpenFile(f) ==
    {[err |-> TRUE, fs |-> f, file |-> 0]}
    \cup
    {IF f.inodeAtPath = 0
     THEN [err |-> FALSE,
           fs |-> [inodeAtPath |-> Len(f.files) + 1,
                   files |-> Append(f.files, <<>>),
                   handles |-> Append(f.handles,
                                      [inode |-> Len(f.files) + 1, open |-> TRUE])],
           file |-> Len(f.handles) + 1]
     ELSE [err |-> FALSE,
           fs |-> [f EXCEPT !.handles =
                               Append(@, [inode |-> f.inodeAtPath, open |-> TRUE])],
           file |-> Len(f.handles) + 1]}

\* (*os.File).Close: the outcomes it can have.  A file closed before gives
\* os.ErrClosed; otherwise the descriptor is released, with or without an
\* error of the system call
CloseFile(f, h) ==
    IF ~f.handles[h].open THEN {[err |-> TRUE, fs |-> f]}
    ELSE {[err |-> e, fs |-> [f EXCEPT !.handles[h].open = FALSE]] :
             e \in BOOLEAN}

\* (*os.File).Write of one piece of a record: appended to the file of the
\* handle; on a closed handle nothing is written and the call fails
WriteFile(f, h, piece) ==
    IF f.handles[h].open
    THEN [err |-> FALSE,
          fs |-> [f EXCEPT !.files[f.handles[h].inode] = Append(@, piece)]]
    ELSE [err |-> TRUE, fs |-> f]

\* NewFileSecurityLogger(path): the file is opened (and created) at the path
NewFileSecurityLogger ==
    [logger |-> [mu |-> "", writer |-> 1, file |-> 1],
     fs |-> [inodeAtPath |-> 1, files |-> << <<>> >>,
             handles |-> << [inode |-> 1, open |-> TRUE] >>]]

\* NewSecurityLogger(w): a logger on a writer that is not a file of its own
NewSecurityLogger ==
    [logger |-> [mu |-> "", writer |-> 1, file |-> 0],
     fs |-> [inodeAtPath |-> 1, files |-> << <<>> >>,
             handles |-> << [inode |-> 1, open |-> TRUE] >>]]

\* the request workers and signal handlers that call the logger
Workers == {"w1", "w2"}

\* mutant of MutexFree: Lock never waits
MutexAlwaysFree(l) == TRUE

\* l.mu.Lock() returns when no caller holds the mutex
MutexFree(l) == l.mu = ""

\* mutant of Unlock: the mutex stays with the caller that returns
UnlockSkipped(l) == l

\* the deferred l.mu.Unlock(): the mutex is free again
Unlock(l) == [l EXCEPT !.mu = ""]

\* a worker that is not inside a call of the logger
Idle == [pc |-> "idle", calls |-> 0, event |-> <<>>, logged |-> {}, err |-> FALSE]

\* no function of the logger has been called directly
NoCall == [fn |-> "none", args |-> <<>>, result |-> <<>>, at |-> 0]

\* the issuer whose certificate is in the file that -ca names, and one whose
\* certificate is not
TrustedCA == "ca"
Issuers == {TrustedCA, "other"}

\* the listener without TLS: http.ListenAndServe
NoTLS == [on |-> FALSE, ClientAuth |-> "NoClientCert", ClientCAs |-> {}]

\* mutant of ClientAuth: a client certificate is asked for and taken as it
\* comes
ClientAuthUnverified(authEnabled, pool) ==
    IF authEnabled /\ pool # {} THEN "RequireAnyClientCert" ELSE "NoClientCert"

\* main: tlsConfig.ClientAuth, tls.VerifyClientCertIfGiven if authEnabled &&
\* caCertPool != nil and the zero value tls.NoClientCert otherwise
ClientAuth(authEnabled, pool) ==
    IF authEnabled /\ pool # {} THEN "VerifyClientCertIfGiven" ELSE "NoClientCert"

\* main: the listener's TLS configuration; with -cert and -key the server
\* listens with TLS, its ClientCAs the pool of the CA file if authentication
\* is on, and without them it listens in the clear
TLSConfig(flags, authEnabled, pool) ==
    IF flags.cert /\ flags.key
    THEN [on |-> TRUE, ClientAuth |-> ClientAuth(authEnabled, pool),
          ClientCAs |-> IF authEnabled /\ pool # {} THEN pool ELSE {}]
    ELSE NoTLS

\* what the listener makes of a connection whose client offers the
\* certificates in offer (none, or one with its issuer): the r.TLS of the
\* requests on it, none if the handshake fails.  In the clear r.TLS is nil;
\* with tls.NoClientCert no certificate is asked for; with
\* tls.VerifyClientCertIfGiven a certificate offered must chain to ClientCAs
Handshake(tls, offer) ==
    IF ~tls.on THEN {[present |-> FALSE, PeerCertificates |-> <<>>]}
    ELSE IF tls.ClientAuth = "NoClientCert" \/ offer = <<>>
    THEN {[present |-> TRUE, PeerCertificates |-> <<>>]}
    ELSE IF tls.ClientAuth = "VerifyClientCertIfGiven"
            /\ offer[1].issuer \notin tls.ClientCAs
    THEN {}
    ELSE {[present |-> TRUE, PeerCertificates |-> <<offer[1].cert>>]}

\* main has set the auth-enabled server up, with the secret of the store,
\* and serves requests
Serving ==
    [pc |-> "serving", flags |-> [ca |-> TRUE, cert |-> TRUE, key |-> TRUE],
     authEnabled |-> TRUE, config |-> <<StoredSecret>>,
     secret |-> StoredSecret, pool |-> {TrustedCA},
     tls |-> TLSConfig([ca |-> TRUE, cert |-> TRUE, key |-> TRUE], TRUE, {TrustedCA}),
     err |-> "", log |-> <<>>]

\* the request workers of the HTTP server that run handlers concurrently
Handlers == {"h1", "h2"}

\* a request worker that is not handling a request
NotHandling ==
    [pc |-> "idle",
     r |-> [TLS |-> [present |-> FALSE, PeerCertificates |-> <<>>],
            Authorization |-> <<>>, XForwardedFor |-> <<>>,
            XRealIP |-> <<>>, RemoteAddr |-> <<>>],
     w |-> NoResponse, ctx |-> <<>>, at |-> 0,
     vans |-> [id |-> "", err |-> Nil]]

\* =========================================================== state machine
VARIABLES
    now,    \* the clock, in ticks
    cfg,    \* the MiddlewareConfig the handlers were built with
    req,    \* the request served last: handler, request, clock, callback answer
    res,    \* what the handler did with it
    gen,    \* the last direct call of GenerateToken and its results
    val,    \* the last direct call of ValidateToken and its results
    tokens, \* the rows of the store's tokens table
    issued, \* what the callers hold: the id and token of each 201 response
    revoked,\* the ids whose DELETE was answered 204
    logger, \* the FileSecurityLogger: mu (its holder), writer, file
    fs,     \* the file system under the logger
    workers,\* each caller of the logger: where it is in log or Reopen
    call,   \* the last direct call of a function of the logger, its result
    inflight\* the requests being handled concurrently, each with its locals

vars == <<now, cfg, req, res, gen, val, tokens, issued, revoked,
          logger, fs, workers, call, proc, inflight>>

\* ------------------------------------------------------------ input sets
Configs ==
    {MiddlewareConfig(s, v, l, a, p) :
        s \in Secrets, v \in BOOLEAN, l \in BOOLEAN, a \in BOOLEAN, p \in BOOLEAN}

\* peer certificates: verified by the TLS layer, so the common name is valid
\* UTF-8 and the certificate has not expired
Certs ==
    {[CommonName |-> cn, Serial |-> "1", NotAfter |-> MaxTime + 1] :
        cn \in {c \in CNs : ValidUTF8(c)}}

TLSStates ==
    {[present |-> FALSE, PeerCertificates |-> <<>>],
     [present |-> TRUE, PeerCertificates |-> <<>>]}
    \cup {[present |-> TRUE, PeerCertificates |-> <<c>>] : c \in Certs}

\* tokens that GenerateToken has produced up to time t under any secret
IssuedTokens(t) ==
    {GenerateToken(cn, ttl, s, t0).token :
        cn \in CNs, ttl \in TTLs, s \in Secrets, t0 \in 0..t}

PayloadOf(tok) == Split(tok)[1]
SigOf(tok) == Split(tok)[2]

\* strings that no GenerateToken call has produced
OtherTokens ==
    {<<>>, Txt(<<"a">>), Txt(<<"a", ".", "b">>), Txt(<<"a", ".", "b", ".", "a">>),
     Txt(<<"!", ".", "a">>), Txt(<<".">>),
     \* the payload of one token with the signature of another
     PayloadOf(GenerateToken(<<"a">>, MaxTTL, <<1>>, 0).token) \o <<Dot>>
         \o SigOf(GenerateToken(<<>>, MaxTTL, <<1>>, 0).token)}

SampleToken == GenerateToken(<<"a">>, MaxTTL, <<1>>, 0).token

AuthHeaders(t) ==
    {<<>>}
    \cup {Bearer \o tok : tok \in IssuedTokens(t) \cup OtherTokens}
    \cup {Txt(<<"b", "e", "a", "r", "e", "r", " ">>) \o SampleToken,
          Txt(<<"B", "e", "a", "r", "e", "r">>) \o SampleToken,
          Txt(<<"B", "a", "s", "i", "c", " ">>) \o SampleToken,
          Txt(<<" ">>) \o Bearer \o SampleToken,
          SampleToken}

Requests(t) ==
    {[TLS |-> tls, Authorization |-> a, XForwardedFor |-> x,
      XRealIP |-> Txt(<<"3">>), RemoteAddr |-> Txt(<<"9">>)] :
        tls \in TLSStates, a \in AuthHeaders(t),
        x \in {<<>>, Txt(<<" ", "1", " ", ",", "2">>)}}

\* what a TokenValidator callback may answer: a token id and no error, or
\* an error (the callback is opaque to the middleware)
ValidatorAnswers ==
    {[id |-> i, err |-> e] :
        i \in {"", "tok_1"}, e \in {Nil, ErrTokenRevoked, ErrNoRows}}

NoAnswer == [id |-> "", err |-> Nil]

NoRequest ==
    [handler |-> "none",
     r |-> [TLS |-> [present |-> FALSE, PeerCertificates |-> <<>>],
            Authorization |-> <<>>, XForwardedFor |-> <<>>,
            XRealIP |-> <<>>, RemoteAddr |-> <<>>],
     at |-> 0, vans |-> NoAnswer]

NoGen ==
    [called |-> FALSE, cn |-> <<>>, ttl |-> 0, secret |-> <<>>, at |-> 0,
     token |-> <<>>, expiresAt |-> 0, err |-> Nil]

NoVal ==
    [called |-> FALSE, token |-> <<>>, secret |-> <<>>, at |-> 0,
     claims |-> NoClaims, err |-> Nil]

\* ------------------------------------------------------------------ Init
Init ==
    /\ now = 0
    /\ cfg \in Configs
    /\ req = NoRequest
    /\ res = NoResponse
    /\ gen = NoGen
    /\ val = NoVal
    /\ tokens = {}
    /\ issued = {}
    /\ revoked = {}
    /\ logger = NewFileSecurityLogger.logger
    /\ fs = NewFileSecurityLogger.fs
    /\ workers = [w \in Workers |-> Idle]
    /\ call = NoCall
    /\ proc = Serving
    /\ inflight = [h \in Handlers |-> NotHandling]

\* --------------------------------------------------------------- actions
\* time passes
Tick ==
    /\ req = NoRequest
    /\ now < MaxTime
    /\ now' = now + 1
    /\ UNCHANGED <<cfg, req, res, gen, val, tokens, issued,
                  revoked, logger, fs, workers, call, proc, inflight>>

\* one request served by Middleware(cfg)(next)
ServeMiddleware ==
    /\ req = NoRequest
    /\ \E r \in Requests(now), vans \in ValidatorAnswers :
        LET w == Middleware(cfg, r, now, vans) IN
        /\ res' = w
        /\ req' = [handler |-> "Middleware", r |-> r, at |-> now,
                   vans |-> IF w.validatorCalls > 0 THEN vans ELSE NoAnswer]
        /\ UNCHANGED <<now, cfg, gen, val, tokens, issued,
                      revoked, logger, fs, workers, call, proc, inflight>>

\* one request served by RequireCertAuth(cfg)(next)
ServeRequireCertAuth ==
    /\ req = NoRequest
    /\ \E r \in Requests(now) :
        /\ res' = RequireCertAuth(cfg, r, now)
        /\ req' = [handler |-> "RequireCertAuth", r |-> r, at |-> now,
                   vans |-> NoAnswer]
        /\ UNCHANGED <<now, cfg, gen, val, tokens, issued,
                      revoked, logger, fs, workers, call, proc, inflight>>

\* the request ends: its context, and the identity in it, are dropped
Finish ==
    /\ req # NoRequest
    /\ req' = NoRequest
    /\ res' = NoResponse
    /\ UNCHANGED <<now, cfg, gen, val, tokens, issued,
                  revoked, logger, fs, workers, call, proc, inflight>>

Next == Tick \/ ServeMiddleware \/ ServeRequireCertAuth \/ Finish

Spec == Init /\ [][Next]_vars

\* ------------------------------------------------- the codec on its own
InitCodec ==
    /\ now = 0
    /\ cfg = MiddlewareConfig(<<>>, FALSE, FALSE, FALSE, FALSE)
    /\ req = NoRequest
    /\ res = NoResponse
    /\ gen = NoGen
    /\ val = NoVal
    /\ tokens = {}
    /\ issued = {}
    /\ revoked = {}
    /\ logger = NewFileSecurityLogger.logger
    /\ fs = NewFileSecurityLogger.fs
    /\ workers = [w \in Workers |-> Idle]
    /\ call = NoCall
    /\ proc = Serving
    /\ inflight = [h \in Handlers |-> NotHandling]

\* a call GenerateToken(cn, ttl, secret); the caller holds one token at a
\* time
GenerateTokenCall ==
    /\ ~gen.called
    /\ \E cn \in CNs, ttl \in TTLs, s \in Secrets :
        LET g == GenerateToken(cn, ttl, s, now) IN
        /\ gen' = [called |-> TRUE, cn |-> cn, ttl |-> ttl, secret |-> s,
                   at |-> now, token |-> g.token, expiresAt |-> g.expiresAt,
                   err |-> g.err]
        /\ val' = NoVal
        /\ UNCHANGED <<now, cfg, req, res, tokens, issued,
                      revoked, logger, fs, workers, call, proc, inflight>>

\* the line feed a token copied from a file or a terminal may carry
LineFeed == <<"c", "\n">>

\* strings handed to ValidateToken that GenerateToken did not return: the
\* strings of OtherTokens, a payload that is not claims JSON with a right
\* and with a wrong signature, and a generated token with a line feed after
\* it, inside its payload and before its signature
ForgedTokens(tok) ==
    OtherTokens
    \cup {Txt(<<"a">>) \o <<Dot>>
             \o EncodeToString(computeHMAC(<< <<"raw", "a">> >>, <<1>>)),
          Txt(<<"a">>) \o <<Dot>>
             \o EncodeToString(computeHMAC(<< <<"raw", "b">> >>, <<1>>)),
          Txt(<<"a">>) \o <<Dot, LineFeed>>,
          <<LineFeed, Dot, LineFeed>>}
    \cup (IF tok = <<>> THEN {}
          ELSE {tok \o <<LineFeed>>,
                <<Head(tok), LineFeed>> \o Tail(tok),
                PayloadOf(tok) \o <<Dot, LineFeed>> \o SigOf(tok)})

\* a call ValidateToken(token, secret): on the token generated last, or on
\* a string that GenerateToken did not return
ValidateTokenCall ==
    /\ gen.called
    /\ \E tok \in {gen.token} \cup ForgedTokens(gen.token), s \in Secrets :
        LET v == ValidateToken(tok, s, now) IN
        /\ val' = [called |-> TRUE, token |-> tok, secret |-> s,
                   at |-> now, claims |-> v.claims, err |-> v.err]
        /\ UNCHANGED <<now, cfg, req, res, gen, tokens, issued,
                      revoked, logger, fs, workers, call, proc, inflight>>

\* the caller drops the token it holds and what it learnt about it
ForgetToken ==
    /\ gen.called
    /\ gen' = NoGen
    /\ val' = NoVal
    /\ UNCHANGED <<now, cfg, req, res, tokens, issued,
                  revoked, logger, fs, workers, call, proc, inflight>>

NextCodec == Tick \/ GenerateTokenCall \/ ValidateTokenCall \/ ForgetToken

SpecCodec == InitCodec /\ [][NextCodec]_vars

\* ------------------------------------------- the server as main wires it
\* the common names of the callers' certificates
ApiUsers == {<<"a">>, <<"<">>}

ApiCerts ==
    {[CommonName |-> cn, Serial |-> "1", NotAfter |-> MaxTime + 1] :
        cn \in ApiUsers}

\* the ids GenerateTokenID can return: 12 random bytes, so an id that was
\* returned before does not come again
TokenIDs == {"tok_1", "tok_2"}
GenerateTokenID(given) == TokenIDs \ {i.id : i \in given}

\* the expires_in of a createTokenRequest: absent, not a duration, or a
\* duration in ticks
ExpiresIns ==
    {[kind |-> "absent", d |-> 0], [kind |-> "bad", d |-> 0]}
    \cup {[kind |-> "duration", d |-> d] : d \in {0, 1, MaxTTL, MaxTTL + 1}}

\* request bodies: one that is not JSON, and createTokenRequests
Bodies ==
    {InvalidJSON}
    \cup {[valid |-> TRUE, Name |-> n, ExpiresIn |-> e] :
             n \in {<<>>, Txt(<<"n">>)}, e \in ExpiresIns}

\* the credentials of a request: a certificate or none, and no
\* Authorization header, a bearer token the server gave out, or a forged one
ApiCredentials(given) ==
    {[TLS |-> tls, Authorization |-> a] :
        tls \in {[present |-> TRUE, PeerCertificates |-> <<>>]}
                \cup {[present |-> TRUE, PeerCertificates |-> <<c>>] :
                         c \in ApiCerts},
        a \in {<<>>, Bearer \o Txt(<<"a", ".", "b">>)}
              \cup {Bearer \o i.token : i \in given}}

ApiRequest(route, id, body, cred) ==
    [Route |-> route, id |-> id, Body |-> body,
     TLS |-> cred.TLS, Authorization |-> cred.Authorization,
     XForwardedFor |-> <<>>, XRealIP |-> <<>>, RemoteAddr |-> Txt(<<"9">>)]

\* request lines outside the token routes: the two public ones, another
\* method on a public path, two routes of the API, and a file of the
\* frontend
OtherRoutes ==
    {"GET /api/health", "GET /api/status", "POST /api/health",
     "GET /api/whoami", "GET /api/items", "GET /index.html"}

\* requests to main's mux
ApiRequests(given) ==
    {ApiRequest("POST /api/tokens", "", b, c) :
        b \in Bodies, c \in ApiCredentials(given)}
    \cup {ApiRequest("GET /api/tokens", "", InvalidJSON, c) :
             c \in ApiCredentials(given)}
    \cup {ApiRequest("DELETE /api/tokens/{id}", i, InvalidJSON, c) :
             i \in TokenIDs, c \in ApiCredentials(given)}
    \cup {ApiRequest(route, "", InvalidJSON, c) :
             route \in OtherRoutes, c \in ApiCredentials(given)}

InitApi ==
    /\ now = 0
    /\ cfg = middlewareCfg
    /\ req = NoRequest
    /\ res = NoResponse
    /\ gen = NoGen
    /\ val = NoVal
    /\ tokens = {}
    /\ issued = {}
    /\ revoked = {}
    /\ logger = NewFileSecurityLogger.logger
    /\ fs = NewFileSecurityLogger.fs
    /\ workers = [w \in Workers |-> Idle]
    /\ call = NoCall
    /\ proc = Serving
    /\ inflight = [h \in Handlers |-> NotHandling]

\* the mux has served r as h says: the table is the one the handlers left,
\* the caller keeps the token of a 201 response and notes the id of a 204
\* response
ApiServed(h, r, vout, tokenID) ==
    /\ h.w.status = StatusCreated => tokenID # ""
    /\ res' = h.w
    /\ tokens' = h.tokens
    /\ issued' = IF h.w.status = StatusCreated
                 THEN issued \cup {[id |-> h.w.body[1].ID,
                                    token |-> h.w.body[1].Token]}
                 ELSE issued
    /\ revoked' = IF h.w.status = StatusNoContent
                  THEN revoked \cup {r.id} ELSE revoked
    /\ req' = [handler |-> h.handler, r |-> r, at |-> now,
               vans |-> IF h.w.validatorCalls > 0
                        THEN [id |-> vout.id, err |-> vout.err] ELSE NoAnswer]
    /\ UNCHANGED <<now, cfg, gen, val, logger, fs, workers, call, proc, inflight>>

\* one request served by main's mux
ServeApi ==
    /\ req = NoRequest
    /\ \E r \in ApiRequests(issued) :
       \E vout \in tokenValidator(tokens, TrimPrefix(r.Authorization, Bearer), now) :
       \E tokenID \in IF r.Route = "POST /api/tokens" /\ GenerateTokenID(issued) # {}
                      THEN GenerateTokenID(issued) ELSE {""} :
        ApiServed(mux(r, tokens, now, vout, tokenID), r, vout, tokenID)

NextApi == Tick \/ ServeApi \/ Finish

SpecApi == InitApi /\ [][NextApi]_vars

\* ------------------------------------------------- the logger on its own
InitLogger ==
    /\ now = 0
    /\ cfg = middlewareCfg
    /\ req = NoRequest
    /\ res = NoResponse
    /\ gen = NoGen
    /\ val = NoVal
    /\ tokens = {}
    /\ issued = {}
    /\ revoked = {}
    /\ \E l \in {NewFileSecurityLogger, NewSecurityLogger} :
        logger = l.logger /\ fs = l.fs
    /\ workers = [w \in Workers |-> Idle]
    /\ call = NoCall
    /\ proc = Serving
    /\ inflight = [h \in Handlers |-> NotHandling]

\* the part of the state the logger's steps leave alone
notLogger ==
    <<now, cfg, req, res, gen, val, tokens, issued, revoked, call, proc,
      inflight>>

\* the two pieces Encode's one record reaches the file in when the write
\* takes two system calls
FirstPiece(ev) == <<"first", ev>>
RestPiece(ev) == <<"rest", ev>>

\* log(event): the timestamp is set, then the caller goes for the mutex
LogCall(w) ==
    /\ workers[w].pc = "idle"
    /\ workers[w].calls < MaxCalls
    /\ workers' = [workers EXCEPT
                      ![w].pc = "log_lock",
                      ![w].calls = @ + 1,
                      ![w].event = <<[ID |-> <<w, workers[w].calls + 1>>,
                                      Timestamp |-> FormatRFC3339(now)]>>]
    /\ UNCHANGED <<logger, fs, notLogger>>

\* log: l.mu.Lock()
LogLock(w) ==
    /\ workers[w].pc = "log_lock"
    /\ MutexFree(logger)
    /\ logger' = [logger EXCEPT !.mu = w]
    /\ workers' = [workers EXCEPT ![w].pc = "log_encode"]
    /\ UNCHANGED <<fs, notLogger>>

\* log: json.NewEncoder(l.writer).Encode(event), the first piece of the
\* line reaches the file; the error of a failed write is dropped
LogEncode(w) ==
    /\ workers[w].pc = "log_encode"
    /\ LET wr == WriteFile(fs, logger.writer, FirstPiece(workers[w].event[1])) IN
        /\ fs' = wr.fs
        /\ workers' = [workers EXCEPT
                          ![w].pc = IF wr.err THEN "log_unlock" ELSE "log_write"]
    /\ UNCHANGED <<logger, notLogger>>

\* log: the rest of the line reaches the file
LogWrite(w) ==
    /\ workers[w].pc = "log_write"
    /\ fs' = WriteFile(fs, logger.writer, RestPiece(workers[w].event[1])).fs
    /\ workers' = [workers EXCEPT ![w].pc = "log_unlock"]
    /\ UNCHANGED <<logger, notLogger>>

\* log: the deferred l.mu.Unlock(), and the call returns
LogUnlock(w) ==
    /\ workers[w].pc = "log_unlock"
    /\ logger' = Unlock(logger)
    /\ workers' = [workers EXCEPT
                      ![w].pc = "idle",
                      ![w].logged = @ \cup {workers[w].event[1].ID},
                      ![w].event = <<>>]
    /\ UNCHANGED <<fs, notLogger>>

\* Reopen: l.file == nil returns nil; else the path is read off l.file (the
\* one log path, whichever file l.file is at that moment) and the caller
\* goes for the mutex
ReopenCall(w) ==
    /\ workers[w].pc = "idle"
    /\ workers[w].calls < MaxCalls
    /\ workers' = [workers EXCEPT
                      ![w].pc = IF logger.file = 0 THEN "idle" ELSE "reopen_lock",
                      ![w].calls = @ + 1,
                      ![w].err = FALSE]
    /\ UNCHANGED <<logger, fs, notLogger>>

\* Reopen: l.mu.Lock()
ReopenLock(w) ==
    /\ workers[w].pc = "reopen_lock"
    /\ MutexFree(logger)
    /\ logger' = [logger EXCEPT !.mu = w]
    /\ workers' = [workers EXCEPT ![w].pc = "reopen_close"]
    /\ UNCHANGED <<fs, notLogger>>

\* Reopen: l.file.Close(); an error ends the call
ReopenClose(w) ==
    /\ workers[w].pc = "reopen_close"
    /\ \E c \in CloseFile(fs, logger.file) :
        /\ fs' = c.fs
        /\ workers' = [workers EXCEPT
                          ![w].pc = IF c.err THEN "reopen_unlock" ELSE "reopen_open",
                          ![w].err = c.err]
    /\ UNCHANGED <<logger, notLogger>>

\* Reopen: os.OpenFile(path, ...); an error ends the call, else l.file and
\* l.writer become the new file
ReopenOpen(w) ==
    /\ workers[w].pc = "reopen_open"
    /\ \E o \in OpenFile(fs) :
        /\ fs' = o.fs
        /\ logger' = IF o.err THEN logger
                     ELSE [logger EXCEPT !.file = o.file, !.writer = o.file]
        /\ workers' = [workers EXCEPT ![w].pc = "reopen_unlock", ![w].err = o.err]
    /\ UNCHANGED notLogger

\* Reopen: the deferred l.mu.Unlock(), and the call returns
ReopenUnlock(w) ==
    /\ workers[w].pc = "reopen_unlock"
    /\ logger' = Unlock(logger)
    /\ workers' = [workers EXCEPT ![w].pc = "idle"]
    /\ UNCHANGED <<fs, notLogger>>

\* log rotation: the file at the log path is renamed away
Rotate ==
    /\ fs.inodeAtPath # 0
    /\ Len(fs.files) < MaxFiles
    /\ fs' = [fs EXCEPT !.inodeAtPath = 0]
    /\ UNCHANGED <<logger, workers, notLogger>>

NextLogger ==
    \/ Tick
    \/ Rotate
    \/ \E w \in Workers :
        \/ LogCall(w) \/ LogLock(w) \/ LogEncode(w) \/ LogWrite(w) \/ LogUnlock(w)
        \/ ReopenCall(w) \/ ReopenLock(w) \/ ReopenClose(w) \/ ReopenOpen(w)
        \/ ReopenUnlock(w)

SpecLogger == InitLogger /\ [][NextLogger]_vars

\* the scheduling of the callers: a goroutine that can take a step of log or
\* Reopen takes it, and sync.Mutex hands the mutex to a caller that keeps
\* waiting for it (its starvation mode), so Lock is not passed over for ever
FairCalls ==
    \A w \in Workers :
        /\ SF_vars(LogLock(w)) /\ SF_vars(ReopenLock(w))
        /\ WF_vars(LogEncode(w)) /\ WF_vars(LogWrite(w)) /\ WF_vars(LogUnlock(w))
        /\ WF_vars(ReopenClose(w)) /\ WF_vars(ReopenOpen(w))
        /\ WF_vars(ReopenUnlock(w))

\* the calls at one reading of the clock: the time only stamps the events
\* and no step of log or Reopen waits for it
NextLoggerFair ==
    \/ Rotate
    \/ \E w \in Workers :
        \/ LogCall(w) \/ LogLock(w) \/ LogEncode(w) \/ LogWrite(w) \/ LogUnlock(w)
        \/ ReopenCall(w) \/ ReopenLock(w) \/ ReopenClose(w) \/ ReopenOpen(w)
        \/ ReopenUnlock(w)

SpecLoggerFair == InitLogger /\ [][NextLoggerFair]_vars /\ FairCalls

\* ------------------------------------------------- main from its start
\* the zero value of a MiddlewareConfig, before main has built one
ZeroConfig == MiddlewareConfig(<<>>, FALSE, FALSE, FALSE, FALSE)

\* the flags of the command line: whether -ca, -cert and -key are given
Flags == [ca : BOOLEAN, cert : BOOLEAN, key : BOOLEAN]

\* main once the flags are parsed: authentication is on if -ca is given;
\* the token_secret row of the store is there or not
Started(flags, config) ==
    [pc |-> "flags", flags |-> flags, authEnabled |-> flags.ca,
     config |-> config, secret |-> <<>>, pool |-> {}, tls |-> NoTLS,
     err |-> "", log |-> <<>>]

InitMain ==
    /\ now = 0
    /\ cfg = ZeroConfig
    /\ req = NoRequest
    /\ res = NoResponse
    /\ gen = NoGen
    /\ val = NoVal
    /\ tokens = {}
    /\ issued = {}
    /\ revoked = {}
    /\ logger = NewFileSecurityLogger.logger
    /\ fs = NewFileSecurityLogger.fs
    /\ workers = [w \in Workers |-> Idle]
    /\ call = NoCall
    /\ proc \in {Started(f, c) : f \in Flags, c \in {<<>>, <<StoredSecret>>}}
    /\ inflight = [h \in Handlers |-> NotHandling]

\* the part of the state the steps of main's set-up leave alone
notMain ==
    <<now, req, res, gen, val, tokens, issued, revoked, logger, fs, workers,
      call, inflight>>

\* mutant of Fatal: the error is logged and main goes on
FatalGoesOn(p, err) == [p EXCEPT !.err = err, !.pc = "wire"]

\* log.Fatalf: the process exits
Fatal(p, err) == [p EXCEPT !.err = err, !.pc = "aborted"]

\* main: -ca without -cert or without -key is fatal
MainFlags ==
    /\ proc.pc = "flags"
    /\ proc' = IF proc.flags.ca /\ (~proc.flags.cert \/ ~proc.flags.key)
               THEN Fatal(proc, "-ca requires -cert and -key")
               ELSE [proc EXCEPT !.pc = "start"]
    /\ UNCHANGED <<cfg, notMain>>

\* what os.ReadFile and AppendCertsFromPEM make of the CA file
CAFiles == {"unreadable", "unparseable", "certificate"}

\* main: the CA certificate is read and parsed into the pool, a file that
\* cannot be read or holds no certificate is fatal; or authentication is off
MainLoadCA ==
    /\ proc.pc = "start"
    /\ \/ /\ ~proc.authEnabled
          /\ proc' = [proc EXCEPT !.pc = "wire"]
       \/ /\ proc.authEnabled
          /\ \E file \in CAFiles :
                proc' = IF file = "unreadable"
                        THEN Fatal(proc, "read CA certificate")
                        ELSE IF file = "unparseable"
                        THEN Fatal(proc, "parse CA certificate")
                        ELSE [proc EXCEPT !.pc = "secret", !.pool = {TrustedCA}]
    /\ UNCHANGED <<cfg, notMain>>

\* main: s.GetOrCreateTokenSecret(); an error is fatal
MainSecret ==
    /\ proc.pc = "secret"
    /\ \E o \in GetOrCreateTokenSecret(proc.config) :
          proc' = IF o.err # "" THEN Fatal(proc, o.err)
                  ELSE [proc EXCEPT !.pc = "securitylog", !.secret = o.secret,
                                    !.config = o.config]
    /\ UNCHANGED <<cfg, notMain>>

\* main: the security log is opened, an error is fatal; authCfg is set and
\* the start of the server is logged
MainSecurityLog ==
    /\ proc.pc = "securitylog"
    /\ \E ok \in BOOLEAN :
          proc' = IF ~ok THEN Fatal(proc, "open security log")
                  ELSE [proc EXCEPT
                           !.pc = "wire",
                           !.log = <<LogServerStart(
                                       Txt(<<"a", "u", "t", "h", "e", "n", "t", "i",
                                             "c", "a", "t", "e", "d">>),
                                       Txt(<<"c", "a">>), now)>>]
    /\ UNCHANGED <<cfg, notMain>>

\* main: the middleware is built around the API server if authentication
\* is on and the routes are registered
MainWire ==
    /\ proc.pc = "wire"
    /\ cfg' = IF proc.authEnabled
              THEN MiddlewareConfig(proc.secret, TRUE, TRUE, TRUE, FALSE)
              ELSE cfg
    /\ proc' = [proc EXCEPT !.pc = "listen"]
    /\ UNCHANGED notMain

\* main: the server listens, with TLS if -cert and -key are given; the
\* error ListenAndServeTLS or ListenAndServe returns is fatal
MainListen ==
    /\ proc.pc = "listen"
    /\ \E ok \in BOOLEAN :
          proc' = IF ~ok THEN Fatal(proc, "listen")
                  ELSE [proc EXCEPT
                           !.pc = "serving",
                           !.tls = TLSConfig(proc.flags, proc.authEnabled, proc.pool)]
    /\ UNCHANGED <<cfg, notMain>>

\* the requests sent to the started server: the public health route and
\* routes of the API; without credentials, with a certificate, with a
\* forged token, with a token signed with a secret of the server that the
\* store does not hold
StartedRequests ==
    {ApiRequest(route, "", InvalidJSON, c) :
        route \in {"GET /api/health", "GET /api/items", "GET /api/whoami",
                   "GET /api/tokens"},
        c \in ApiCredentials({[id |-> "", token |-> GenerateToken(<<"a">>, MaxTTL, n, 0).token] :
                                n \in NewSecrets})}

\* what a client offers in the handshake: no certificate, or a certificate
\* of one of the callers' names issued by the CA of -ca or by another
Offers ==
    {<<>>} \cup {<<[cert |-> c, issuer |-> i]>> : c \in ApiCerts, i \in Issuers}

\* the requests that reach the mux on a connection with that offer: r.TLS
\* is what the listener's handshake has made of the offer
Delivered(tls, offer) ==
    {[r EXCEPT !.TLS = t] : r \in StartedRequests, t \in Handshake(tls, offer)}

\* the mux has served r as h says; api tells whether the API server was
\* called by apiHandler, user is the identity in the context of the
\* request it was called with (empty: none)
Accepted(handler, h, r, vout, api, user, offer) ==
    /\ res' = h.w
    /\ req' = [handler |-> handler, r |-> r, at |-> now,
               vans |-> IF h.w.validatorCalls > 0
                        THEN [id |-> vout.id, err |-> vout.err] ELSE NoAnswer,
               api |-> api, user |-> user, offer |-> offer]
    /\ UNCHANGED <<now, cfg, gen, val, tokens, issued, revoked, logger, fs,
                   workers, call, proc, inflight>>

\* apiHandler with authentication on: the API server is next of the
\* middleware, whose run on r is w
AcceptedBehind(handler, w, r, vout, offer) ==
    Accepted(handler,
             IF w.next = 0 THEN Handled(w, tokens)
             ELSE ServeHTTP(w, w.user, r, tokens, now, ""),
             r, vout, w.next > 0, w.user, offer)

\* the listening server serves one request through main's mux: a public
\* route, or apiHandler, which is the API server behind the middleware
\* main has built or, authentication off, the API server itself
Accept ==
    /\ proc.pc = "serving"
    /\ req = NoRequest
    /\ \E offer \in Offers :
       \E r \in Delivered(proc.tls, offer) :
       \E vout \in tokenValidator(tokens, TrimPrefix(r.Authorization, Bearer), now) :
        LET handler == Pick(muxPatterns, r.Route)[1].handler IN
        IF handler # "apiHandler"
        THEN Accepted(handler, HandleOpen(NoResponse, tokens), r, vout, FALSE, <<>>,
                      offer)
        ELSE IF ~proc.authEnabled
        THEN Accepted(handler, ServeHTTP(NoResponse, <<>>, r, tokens, now, ""),
                      r, vout, TRUE, <<>>, offer)
        ELSE AcceptedBehind(handler,
                            Middleware(cfg, r, now, [id |-> vout.id, err |-> vout.err]),
                            r, vout, offer)

NextMain ==
    \/ Tick
    \/ MainFlags \/ MainLoadCA \/ MainSecret \/ MainSecurityLog \/ MainWire
    \/ MainListen
    \/ Accept \/ Finish

SpecMain == InitMain /\ [][NextMain]_vars

\* ------------------------------------ the middleware on concurrent requests
\* the tokens two users were given at time 0 by the server
HeldTokens ==
    {[id |-> "tok_1", cn |-> <<"a">>,
      g |-> GenerateToken(<<"a">>, MaxTTL, StoredSecret, 0)],
     [id |-> "tok_2", cn |-> <<"<">>,
      g |-> GenerateToken(<<"<">>, MaxTTL, StoredSecret, 0)]}

RECURSIVE Stored(_)
\* the tokens table after the store has created the rows of the tokens held
Stored(held) ==
    IF held = {} THEN {}
    ELSE LET k == CHOOSE x \in held : TRUE IN
         CreateToken(Stored(held \ {k}), k.id, k.cn, Txt(<<"n">>),
                     HashToken(k.g.token), k.g.expiresAt, 0).tokens

\* the requests that arrive together: without credentials, with a user's
\* certificate, with the token of either user, with a token nobody signed
ConcurrentRequests ==
    {[TLS |-> tls, Authorization |-> a, XForwardedFor |-> <<>>,
      XRealIP |-> <<>>, RemoteAddr |-> Txt(<<"9">>)] :
        tls \in {[present |-> TRUE, PeerCertificates |-> <<>>]},
        a \in {<<>>, Bearer \o Txt(<<"a", ".", "b">>)}
              \cup {Bearer \o k.g.token : k \in HeldTokens}}
    \cup {[TLS |-> [present |-> TRUE, PeerCertificates |-> <<c>>],
           Authorization |-> <<>>, XForwardedFor |-> <<>>,
           XRealIP |-> <<>>, RemoteAddr |-> Txt(<<"9">>)] :
             c \in {x \in ApiCerts : x.CommonName = <<"a">>}}

InitConc ==
    /\ now = 0
    /\ cfg \in {middlewareCfg, MiddlewareConfig(StoredSecret, TRUE, TRUE, FALSE, FALSE)}
    /\ req = NoRequest
    /\ res = NoResponse
    /\ gen = NoGen
    /\ val = NoVal
    /\ tokens = Stored(HeldTokens)
    /\ issued = {[id |-> k.id, token |-> k.g.token] : k \in HeldTokens}
    /\ revoked = {}
    /\ logger = NewFileSecurityLogger.logger
    /\ fs = NewFileSecurityLogger.fs
    /\ workers = [w \in Workers |-> Idle]
    /\ call = NoCall
    /\ proc = Serving
    /\ inflight = [h \in Handlers |-> NotHandling]

\* the part of the state the handlers leave alone
notInflight ==
    <<now, cfg, req, res, gen, val, issued, revoked, logger, fs, workers,
      call, proc>>

\* mutant of WithUser: the identity is kept in one place for all requests
WithUserShared(fl, h, user) ==
    [k \in DOMAIN fl |-> [fl[k] EXCEPT !.ctx = <<user>>]]

\* WithUser(r.Context(), user) for the request of worker h: a new context,
\* derived from the request's own, that carries the identity
WithUser(fl, h, user) == [fl EXCEPT ![h].ctx = <<user>>]

\* GetUser(r.Context()) in the handler behind the middleware
GetUser(fl, h) == fl[h].ctx

\* worker h is at w, with the identity attached, before next.ServeHTTP
Attach(fl, h, w, user) ==
    [WithUser(fl, h, user) EXCEPT ![h].w = w, ![h].pc = "next"]

\* worker h has written its answer w without calling next
Answer(fl, h, w) == [fl EXCEPT ![h].w = w, ![h].pc = "done"]

\* the server hands a request to a worker, which enters the handler
Receive(h) ==
    /\ inflight[h].pc = "idle"
    /\ \E r \in ConcurrentRequests :
          inflight' = [inflight EXCEPT ![h] = [NotHandling EXCEPT !.pc = "cert", !.r = r]]
    /\ UNCHANGED <<tokens, notInflight>>

\* the handler up to the bearer branch: single-user mode, the certificate,
\* or no credential at all
CheckCert(h) ==
    LET f == inflight[h]
        sourceIP == ExtractSourceIP(f.r, cfg.TrustProxy)
        certUser == ExtractUserFromCert(f.r)
    IN
    /\ f.pc = "cert"
    /\ inflight' =
          IF ~cfg.AuthEnabled THEN Attach(inflight, h, f.w, SingleUserContext)
          ELSE IF certUser # <<>>
          THEN Attach(inflight, h,
                      SetAuthHeaders(Emit(cfg, f.w, LogAuthSuccess(certUser[1], sourceIP, now)),
                                     certUser[1], "cert"),
                      certUser[1])
          ELSE IF HasPrefix(f.r.Authorization, Bearer)
          THEN [inflight EXCEPT ![h].pc = "validate"]
          ELSE Answer(inflight, h, RejectNoCredentials(cfg, sourceIP, now))
    /\ UNCHANGED <<tokens, notInflight>>

\* the handler calls ValidateToken, which reads the clock
Validate(h) ==
    LET f == inflight[h]
        sourceIP == ExtractSourceIP(f.r, cfg.TrustProxy)
        tokenStr == TrimPrefix(f.r.Authorization, Bearer)
        v == ValidateToken(tokenStr, cfg.Secret, now)
        validated == [f.w EXCEPT !.validateCalls = @ + 1]
        g == [inflight EXCEPT ![h].at = now]
    IN
    /\ f.pc = "validate"
    /\ inflight' =
          IF v.err # Nil
          THEN Answer(g, h, RejectInvalidToken(cfg, validated, v.err, sourceIP, now))
          ELSE IF cfg.TokenValidator
          THEN [g EXCEPT ![h].w = validated, ![h].pc = "validator"]
          ELSE Attach(g, h,
                      SetAuthHeaders(Emit(cfg, validated,
                                          LogAuthSuccess(TokenUser(v.claims, ""), sourceIP, now)),
                                     TokenUser(v.claims, ""), "token"),
                      TokenUser(v.claims, ""))
    /\ UNCHANGED <<tokens, notInflight>>

\* the handler calls the TokenValidator callback, which asks the store
CallValidator(h) ==
    LET f == inflight[h]
        sourceIP == ExtractSourceIP(f.r, cfg.TrustProxy)
        tokenStr == TrimPrefix(f.r.Authorization, Bearer)
        claims == ValidateToken(tokenStr, cfg.Secret, f.at).claims
        asked == [f.w EXCEPT !.validatorCalls = @ + 1]
    IN
    /\ f.pc = "validator"
    /\ \E vout \in tokenValidator(tokens, tokenStr, now) :
         LET g == [inflight EXCEPT ![h].vans = [id |-> vout.id, err |-> vout.err]]
             user == TokenUser(claims, vout.id)
         IN
         /\ tokens' = vout.tokens
         /\ inflight' =
               IF vout.err # Nil
               THEN Answer(g, h, RejectRevoked(cfg, asked, vout.err, sourceIP, now))
               ELSE Attach(g, h,
                           SetAuthHeaders(Emit(cfg, asked, LogAuthSuccess(user, sourceIP, now)),
                                          user, "token"),
                           user)
    /\ UNCHANGED notInflight

\* next.ServeHTTP(w, r.WithContext(ctx)): the handler behind the middleware
\* runs and reads the identity of its request
CallNext(h) ==
    LET f == inflight[h] IN
    /\ f.pc = "next"
    /\ inflight' = [inflight EXCEPT
                       ![h].w = [f.w EXCEPT !.next = @ + 1, !.user = GetUser(inflight, h)],
                       ![h].pc = "done"]
    /\ UNCHANGED <<tokens, notInflight>>

\* the request ends: its context and the identity in it are dropped
EndRequest(h) ==
    /\ inflight[h].pc = "done"
    /\ inflight' = [inflight EXCEPT ![h] = NotHandling]
    /\ UNCHANGED <<tokens, notInflight>>

\* a user revokes a token while requests are in flight
RevokeStored ==
    /\ \E row \in tokens :
          tokens' = DeleteToken(tokens, row.id, row.user_cn).tokens
    /\ UNCHANGED <<inflight, notInflight>>

NextConc ==
    \/ Tick
    \/ RevokeStored
    \/ \E h \in Handlers :
          \/ Receive(h) \/ CheckCert(h) \/ Validate(h) \/ CallValidator(h)
          \/ CallNext(h) \/ EndRequest(h)

SpecConc == InitConc /\ [][NextConc]_vars

\* ------------------------------------- the logger's functions on their own
\* n times the character c
Rep(c, n) == [i \in 1..n |-> <<"c", c>>]

\* header values and peer addresses handed to ExtractSourceIP
ForwardedFors ==
    {<<>>, Txt(<<"1">>), Txt(<<" ", "1", " ">>), Txt(<<" ", "1", " ", ",", "2">>),
     Txt(<<"1", ",", "2", ",", "3">>), Txt(<<",", "2">>), Txt(<<" ">>),
     Txt(<<" ", ",", " ">>)}
RealIPs == {<<>>, Txt(<<"3">>), Txt(<<" ", "3">>)}
SourceRequests ==
    {[TLS |-> [present |-> FALSE, PeerCertificates |-> <<>>],
      Authorization |-> <<>>, XForwardedFor |-> x, XRealIP |-> i,
      RemoteAddr |-> Txt(<<"9">>)] : x \in ForwardedFors, i \in RealIPs}

\* texts handed to sanitize, in three parts: blanks, then a run of
\* characters of one class (hex digits, base64 digits with padding, or a
\* token-like eyJ blob), then a rest that continues no run
Blanks == {0, 1, MaxFieldLen - MinSecretRun, MaxFieldLen - MinJwtTail,
           MaxFieldLen - 1, MaxFieldLen, MaxFieldLen + 1}
Runs ==
    {[kind |-> "none", text |-> <<>>]}
    \cup {[kind |-> "hex", text |-> Rep("a", n)] :
             n \in {MinSecretRun - 1, MinSecretRun, MinSecretRun + 8}}
    \cup {[kind |-> "std", text |-> Rep("z", n) \o Rep("=", e)] :
             n \in {MinSecretRun - 1, MinSecretRun}, e \in {0, MaxPadding}}
    \cup {[kind |-> "jwt", text |-> Txt(<<"e", "y", "J">>) \o Rep("_", n)] :
             n \in {MinJwtTail - 1, MinJwtTail}}
Rests == {<<>>, Txt(<<"!">>)}
SanitizeInputs ==
    {[pre |-> Rep(" ", b), run |-> r, post |-> q] :
        b \in Blanks, r \in Runs, q \in Rests}
TextOf(in) == in.pre \o in.run.text \o in.post

\* the free texts handed to the emitters: empty, short, one that looks like
\* a secret, one longer than a field may be
FreeTexts ==
    {<<>>, Txt(<<"n">>), Rep("a", MinSecretRun), Rep(" ", MaxFieldLen + 1)}
ShortTexts == {<<>>, Txt(<<"n">>)}

InitEmit ==
    /\ now = 0
    /\ cfg = middlewareCfg
    /\ req = NoRequest
    /\ res = NoResponse
    /\ gen = NoGen
    /\ val = NoVal
    /\ tokens = {}
    /\ issued = {}
    /\ revoked = {}
    /\ logger = NewFileSecurityLogger.logger
    /\ fs = NewFileSecurityLogger.fs
    /\ workers = [w \in Workers |-> Idle]
    /\ call = NoCall
    /\ proc = Serving
    /\ inflight = [h \in Handlers |-> NotHandling]

\* the part of the state a direct call leaves alone
notCall ==
    <<now, cfg, req, res, gen, val, tokens, issued, revoked, logger, fs,
      workers, proc, inflight>>

Called(fn, args, result) ==
    /\ call = NoCall
    /\ call' = [fn |-> fn, args |-> args, result |-> result, at |-> now]
    /\ UNCHANGED notCall

\* a call ExtractSourceIP(r, trustProxy)
ExtractSourceIPCall ==
    \E r \in SourceRequests, p \in BOOLEAN :
        Called("ExtractSourceIP", [r |-> r, trustProxy |-> p],
               ExtractSourceIP(r, p))

\* a call sanitize(s)
SanitizeCall ==
    \E in \in SanitizeInputs : Called("sanitize", in, sanitize(TextOf(in)))

\* a call LogAuthSuccess(user, sourceIP)
LogAuthSuccessCall ==
    \E cn \in ApiUsers, ip \in FreeTexts :
        Called("LogAuthSuccess",
               [user |-> TokenUser(TokenClaims(cn, 0, 1), "tok_1"),
                sourceIP |-> ip],
               LogAuthSuccess(TokenUser(TokenClaims(cn, 0, 1), "tok_1"), ip, now))

\* a call LogAuthFailure(reason, details, sourceIP)
LogAuthFailureCall ==
    \E reason \in FreeTexts, details \in FreeTexts, ip \in FreeTexts :
        Called("LogAuthFailure",
               [reason |-> reason, details |-> details, sourceIP |-> ip],
               LogAuthFailure(reason, details, ip, now))

\* a call LogTokenCreated(userCN, tokenID, tokenName, expiresAt, sourceIP)
LogTokenCreatedCall ==
    \E cn \in ApiUsers, name \in FreeTexts, ip \in FreeTexts :
        Called("LogTokenCreated",
               [userCN |-> cn, tokenID |-> "tok_1", tokenName |-> name,
                expiresAt |-> FormatRFC3339(now + MaxTTL), sourceIP |-> ip],
               LogTokenCreated(cn, "tok_1", name, FormatRFC3339(now + MaxTTL),
                               ip, now))

\* a call LogTokenRevoked(userCN, tokenID, sourceIP)
LogTokenRevokedCall ==
    \E cn \in ApiUsers, ip \in FreeTexts :
        Called("LogTokenRevoked",
               [userCN |-> cn, tokenID |-> "tok_1", sourceIP |-> ip],
               LogTokenRevoked(cn, "tok_1", ip, now))

\* a call LogServerStart(mode, caFile)
LogServerStartCall ==
    \E mode \in ShortTexts, caFile \in FreeTexts :
        Called("LogServerStart", [mode |-> mode, caFile |-> caFile],
               LogServerStart(mode, caFile, now))

\* a call LogServerStop(reason)
LogServerStopCall ==
    \E reason \in FreeTexts :
        Called("LogServerStop", [reason |-> reason], LogServerStop(reason, now))

\* the caller drops the result
Return ==
    /\ call # NoCall
    /\ call' = NoCall
    /\ UNCHANGED notCall

NextEmit ==
    \/ Tick
    \/ ExtractSourceIPCall \/ SanitizeCall
    \/ LogAuthSuccessCall \/ LogAuthFailureCall
    \/ LogTokenCreatedCall \/ LogTokenRevokedCall
    \/ LogServerStartCall \/ LogServerStopCall
    \/ Return

SpecEmit == InitEmit /\ [][NextEmit]_vars

\* ------------------------------------------ ValidateToken on its own
\* a unit no HMAC value has
WrongUnit == <<"raw", "x">>

\* the signatures presented with a payload signed under secret: the right
\* one, the right one with some of its units replaced, and ones that are
\* shorter or longer than an HMAC value
PresentedSigs(payload, secret) ==
    LET mac == computeHMAC(payload, secret) IN
    {[i \in 1..MacUnits |-> IF i \in wrong THEN WrongUnit ELSE mac[i]] :
        wrong \in SUBSET (1..MacUnits)}
    \cup {<<>>, SubSeq(mac, 1, MacUnits - 1), mac \o <<WrongUnit>>}

\* the tokens presented: the payload of a token of the server with each of
\* the signatures
PresentedTokens ==
    {PayloadOf(g.token) \o <<Dot>> \o EncodeToString(sig) :
        g \in {GenerateToken(cn, ttl, StoredSecret, 0) :
                  cn \in ApiUsers, ttl \in {0 - MaxTTL, MaxTTL}},
        sig \in UNION {PresentedSigs(DecodeString(PayloadOf(k.token)).bytes, StoredSecret) :
                         k \in {GenerateToken(cn, ttl, StoredSecret, 0) :
                                   cn \in ApiUsers, ttl \in {0 - MaxTTL, MaxTTL}}}}

\* a call ValidateToken(tokenString, secret)
ValidateTokenTimed ==
    \E tok \in PresentedTokens, s \in NewSecrets :
        Called("ValidateToken", [tokenString |-> tok, secret |-> s],
               ValidateToken(tok, s, now))

NextCompare == Tick \/ ValidateTokenTimed \/ Return

SpecCompare == InitEmit /\ [][NextCompare]_vars

\* ================================================================= claims
\* what the formulas below say about the request served last
Served == req # NoRequest
HasCert == req.r.TLS.present /\ Len(req.r.TLS.PeerCertificates) > 0
PeerCert == req.r.TLS.PeerCertificates[1]
\* the prefix of a bearer credential, written out
BearerPrefix == <<<<"c", "B">>, <<"c", "e">>, <<"c", "a">>, <<"c", "r">>,
                  <<"c", "e">>, <<"c", "r">>, <<"c", " ">>>>
IsBearer == HasPrefix(req.r.Authorization, BearerPrefix)
PresentedToken ==
    SubSeq(req.r.Authorization, Len(BearerPrefix) + 1, Len(req.r.Authorization))
\* the result of ValidateToken on the presented token, under the configured
\* secret, at the time of the request
Validation == ValidateToken(PresentedToken, cfg.Secret, req.at)
Proceeded == res.next = 1 /\ Len(res.user) = 1 /\ res.status = 0
Rejected == res.next = 0 /\ res.user = <<>> /\ res.status = StatusUnauthorized
\* the events handed to the logger are exactly: one event of the given type
\* and reason where a logger is configured, none where the logger is nil
LoggedOnly(event, reason) ==
    IF cfg.Logger
    THEN /\ Len(res.events) = 1
         /\ res.events[1].Event = event
         /\ res.events[1].Reason = reason
    ELSE res.events = <<>>
\* text s occurs in text b
Contains(b, s) ==
    \E i \in 0..(Len(b) - Len(s)) : SubSeq(b, i + 1, i + Len(s)) = s

\* C1: every request served by Middleware or RequireCertAuth has exactly one
\* outcome: either next is called exactly once with an identity in the
\* request context and the middleware writes no status, or a 401 is written
\* and next is never called; never both, never neither.
C1_ExactlyOneOutcome ==
    Served => /\ (Proceeded \/ Rejected)
              /\ ~(Proceeded /\ Rejected)

\* C1 witness: Middleware serves a bearer request without certificate and
\* calls next with a token identity
C1_Witness ==
    /\ req.handler = "Middleware" /\ cfg.AuthEnabled /\ ~HasCert
    /\ Proceeded /\ res.user[1].AuthMethod = "token"

\* C2: with authentication enabled, a request with a peer certificate is
\* authenticated by Middleware from the certificate whatever its
\* Authorization header holds: the identity has method cert and the
\* certificate's CN, X-Auth-User is that CN and X-Auth-Method is cert, the
\* event logged is auth_success, next is called, and neither ValidateToken nor
\* the revocation callback is called.
C2_CertificateFirst ==
    (req.handler = "Middleware" /\ cfg.AuthEnabled /\ HasCert) =>
        /\ Proceeded
        /\ res.user[1].AuthMethod = "cert"
        /\ res.user[1].CN = PeerCert.CommonName
        /\ res.XAuthUser = <<PeerCert.CommonName>>
        /\ res.XAuthMethod = "cert"
        /\ LoggedOnly("auth_success", "")
        /\ cfg.Logger => /\ res.events[1].UserCN = PeerCert.CommonName
                         /\ res.events[1].AuthMethod = "cert"
        /\ res.validateCalls = 0
        /\ res.validatorCalls = 0

\* C2 witness: a request with a certificate and a bearer token that
\* ValidateToken refuses is served from the certificate
C2_Witness ==
    /\ req.handler = "Middleware" /\ cfg.AuthEnabled /\ cfg.Logger /\ HasCert
    /\ IsBearer /\ Validation.err = ErrTokenExpired
    /\ Proceeded

\* C3: with authentication enabled and no certificate, a request with
\* "Bearer " and a token that passes ValidateToken, whose revocation callback
\* (if configured) returns an id without error, reaches next with the
\* identity {CN = claims.cn, method token, TokenID = the id returned, empty
\* without callback}, X-Auth-User = claims.cn, X-Auth-Method = token, and the
\* event logged is auth_success.
C3_ValidTokenProceeds ==
    (/\ req.handler = "Middleware" /\ cfg.AuthEnabled /\ ~HasCert
     /\ IsBearer /\ Validation.err = Nil
     /\ cfg.TokenValidator => req.vans.err = Nil) =>
        /\ Proceeded
        /\ res.user[1] = UserContext(Validation.claims.CN, <<>>, "", TimeZero,
                                     "token",
                                     IF cfg.TokenValidator THEN req.vans.id ELSE "")
        /\ res.XAuthUser = <<Validation.claims.CN>>
        /\ res.XAuthMethod = "token"
        /\ LoggedOnly("auth_success", "")
        /\ cfg.Logger => /\ res.events[1].UserCN = Validation.claims.CN
                         /\ res.events[1].AuthMethod = "token"

\* C3 witness: a valid token, a callback that returns the id tok_1, and the
\* request proceeds
C3_Witness ==
    /\ req.handler = "Middleware" /\ cfg.AuthEnabled /\ ~HasCert
    /\ IsBearer /\ Validation.err = Nil
    /\ cfg.TokenValidator /\ res.validatorCalls = 1 /\ req.vans.id = "tok_1"
    /\ Proceeded /\ res.user[1].TokenID = "tok_1"

\* C4: with authentication enabled and no certificate, a bearer token that
\* ValidateToken refuses (malformed, bad signature or expired) is answered
\* 401: next and the revocation callback are not called, the one event
\* logged is auth_failure with reason invalid_token and the validation error
\* as details, and the response body does not name that error.
C4_InvalidTokenRejected ==
    (/\ req.handler = "Middleware" /\ cfg.AuthEnabled /\ ~HasCert
     /\ IsBearer /\ Validation.err # Nil) =>
        /\ Rejected
        /\ res.validatorCalls = 0
        /\ LoggedOnly("auth_failure", "invalid_token")
        /\ cfg.Logger => res.events[1].Details = Validation.err
        /\ ~Contains(res.body, Validation.err)

\* C4 witness: an expired token is refused and the log names the expiry
C4_Witness ==
    /\ req.handler = "Middleware" /\ cfg.AuthEnabled /\ ~HasCert /\ cfg.Logger
    /\ IsBearer /\ Validation.err = ErrTokenExpired
    /\ Rejected /\ res.events[1].Details = ErrTokenExpired

\* C5: with authentication enabled and no certificate, a bearer token that
\* passes ValidateToken but whose revocation callback returns an error is
\* answered 401, next is not called, and the event logged is auth_failure
\* with reason token_revoked.
C5_RevokedTokenRejected ==
    (/\ req.handler = "Middleware" /\ cfg.AuthEnabled /\ ~HasCert
     /\ IsBearer /\ Validation.err = Nil
     /\ cfg.TokenValidator /\ req.vans.err # Nil) =>
        /\ Rejected
        /\ LoggedOnly("auth_failure", "token_revoked")

\* C5 witness: the callback answers "no rows" for a valid token, and the
\* request is refused
C5_Witness ==
    /\ req.handler = "Middleware" /\ cfg.AuthEnabled /\ ~HasCert /\ cfg.Logger
    /\ IsBearer /\ Validation.err = Nil
    /\ cfg.TokenValidator /\ req.vans.err = ErrNoRows
    /\ Rejected

\* C6: with authentication enabled, a request with no certificate and no
\* bearer credential (no Authorization header, or one that does not start
\* with exactly "Bearer ") is answered 401, next is not called, and the event
\* logged is auth_failure with reason no_credentials.
C6_NoCredentialsRejected ==
    (/\ req.handler = "Middleware" /\ cfg.AuthEnabled /\ ~HasCert
     /\ ~IsBearer) =>
        /\ Rejected
        /\ LoggedOnly("auth_failure", "no_credentials")

\* C6 witness: a header that starts with "Bearer" but lacks the space is
\* refused for want of credentials
C6_Witness ==
    /\ req.handler = "Middleware" /\ cfg.AuthEnabled /\ ~HasCert /\ cfg.Logger
    /\ req.r.Authorization # <<>> /\ ~IsBearer
    /\ HasPrefix(req.r.Authorization, SubSeq(BearerPrefix, 1, 6))
    /\ Rejected

\* C7: RequireCertAuth with authentication enabled answers every request
\* without certificate with 401 and reason cert_required, also when it
\* carries a bearer token that is validly signed, unexpired and not revoked;
\* it calls neither ValidateToken nor the revocation callback nor next.
C7_CertificateOnly ==
    (req.handler = "RequireCertAuth" /\ cfg.AuthEnabled /\ ~HasCert) =>
        /\ Rejected
        /\ LoggedOnly("auth_failure", "cert_required")
        /\ res.validateCalls = 0
        /\ res.validatorCalls = 0

\* C7 witness: RequireCertAuth refuses a request whose bearer token is valid
C7_Witness ==
    /\ req.handler = "RequireCertAuth" /\ cfg.AuthEnabled /\ ~HasCert
    /\ IsBearer /\ Validation.err = Nil
    /\ Rejected

\* C8: with authentication disabled both handlers attach the single-user
\* identity (CN single-user-mode, method none) and call next, whatever
\* certificate or Authorization header the request has, and hand no event to
\* the logger even when one is configured.
C8_DisabledSingleUser ==
    (Served /\ ~cfg.AuthEnabled) =>
        /\ Proceeded
        /\ res.user[1].CN = <<"s", "i", "n", "g", "l", "e", "-", "u", "s", "e",
                              "r", "-", "m", "o", "d", "e">>
        /\ res.user[1].AuthMethod = "none"
        /\ res.events = <<>>

\* C8 witness: with a logger configured and authentication disabled,
\* RequireCertAuth lets a request without certificate through
C8_Witness ==
    /\ req.handler = "RequireCertAuth" /\ ~cfg.AuthEnabled /\ cfg.Logger
    /\ ~HasCert /\ IsBearer
    /\ Proceeded

\* C9 as stated: for every commonName, ttl > 0 and secret, validating the
\* generated token under the same secret at any time up to its expiry
\* succeeds and returns claims with CN = commonName.
C9_RoundTripAnyName ==
    (/\ val.called /\ val.token = gen.token /\ val.secret = gen.secret
     /\ gen.ttl > 0 /\ val.at <= gen.expiresAt) =>
        /\ val.err = Nil
        /\ val.claims.ok
        /\ val.claims.CN = gen.cn

\* C9 as amended: the same for every commonName that is valid UTF-8
\* (json.Marshal replaces each byte that is not by U+FFFD).
C9_RoundTripUTF8 ==
    (/\ val.called /\ val.token = gen.token /\ val.secret = gen.secret
     /\ gen.ttl > 0 /\ val.at <= gen.expiresAt
     /\ ValidUTF8(gen.cn)) =>
        /\ val.err = Nil
        /\ val.claims.ok
        /\ val.claims.CN = gen.cn

\* C9 witness: a token for a name with an escaped character is validated at
\* the very tick it expires
C9_Witness ==
    /\ val.called /\ val.token = gen.token /\ val.secret = gen.secret
    /\ gen.ttl > 0 /\ val.at = gen.expiresAt /\ gen.cn = <<"<">>
    /\ val.err = Nil /\ val.claims.CN = gen.cn

\* secret s extended with zero bytes to length n
ZeroExtended(s, n) == [i \in 1..n |-> IF i <= Len(s) THEN s[i] ELSE 0]
\* two secrets that differ at most by trailing zero bytes
EqualUpToZeroPadding(a, b) ==
    LET n == IF Len(a) > Len(b) THEN Len(a) ELSE Len(b)
    IN ZeroExtended(a, n) = ZeroExtended(b, n)

\* C10 as stated: a token generated under s1 fails validation with
\* ErrInvalidSignature under every secret s2 different from s1.
C10_AnyOtherSecretFails ==
    (val.called /\ val.token = gen.token /\ val.secret # gen.secret) =>
        val.err = ErrInvalidSignature

\* C10 as amended: the same for every secret s2 that differs from s1 by more
\* than trailing zero bytes, both of at most the 64 bytes of an HMAC block
\* (HMAC pads a shorter key with zero bytes up to the block).
C10_OtherKeyFails ==
    (/\ val.called /\ val.token = gen.token
     /\ Len(val.secret) <= BlockSize /\ Len(gen.secret) <= BlockSize
     /\ ~EqualUpToZeroPadding(val.secret, gen.secret)) =>
        val.err = ErrInvalidSignature

\* C10 witness: an unexpired token is refused under another key for its
\* signature
C10_Witness ==
    /\ val.called /\ val.token = gen.token
    /\ ~EqualUpToZeroPadding(val.secret, gen.secret)
    /\ gen.ttl > 0 /\ val.at <= gen.expiresAt
    /\ val.err = ErrInvalidSignature

\* the last ValidateToken call was made on the token generated last, under
\* the secret that signed it
SameTokenSameSecret ==
    val.called /\ val.token = gen.token /\ val.secret = gen.secret
\* a validation that follows one of the same string under the same secret
\* which reported the token expired reports it expired again
ExpiredStaysExpired ==
    (/\ val.called /\ val.err = ErrTokenExpired
     /\ val'.called /\ val'.token = val.token /\ val'.secret = val.secret) =>
        val'.err = ErrTokenExpired

\* C11 as stated: every token generated with ttl < 0 and validated under
\* the secret that signed it yields ErrTokenExpired (never
\* ErrInvalidSignature, never claims), and a token once reported expired is
\* reported expired at every later validation.
C11_AnyNegativeTTLExpired ==
    /\ [](SameTokenSameSecret /\ gen.ttl < 0 =>
             val.err = ErrTokenExpired /\ val.claims = NoClaims)
    /\ [][ExpiredStaysExpired]_vars

\* C11 as amended: the same for every ttl of minus one second or less (exp
\* is the expiry rounded down to whole seconds and a token is refused only
\* from the second after exp on, so a token whose ttl is a fraction of a
\* second below zero is still accepted within the second it was made in).
C11_ExpiredFromOneSecond ==
    /\ [](SameTokenSameSecret /\ gen.ttl <= 0 - TicksPerSec =>
             val.err = ErrTokenExpired /\ val.claims = NoClaims)
    /\ [][ExpiredStaysExpired]_vars

\* C11 witness: a token generated with a ttl of minus one second is
\* reported expired, and again at a later tick
C11_Witness ==
    /\ SameTokenSameSecret /\ gen.ttl <= 0 - TicksPerSec
    /\ val.at > gen.at + 1
    /\ val.err = ErrTokenExpired

\* every character of the segment is of the base64url alphabet
IsRawURLBase64(seg) == \A i \in 1..Len(seg) : IsB64Char(seg[i])
\* the string has exactly one dot, with unpadded base64url on both sides
TwoSegmentShape(tok) ==
    /\ Cardinality({i \in 1..Len(tok) : tok[i] = Dot}) = 1
    /\ LET k == CHOOSE i \in 1..Len(tok) : tok[i] = Dot
       IN /\ IsRawURLBase64(SubSeq(tok, 1, k - 1))
          /\ IsRawURLBase64(SubSeq(tok, k + 1, Len(tok)))

\* C12: for every string that is not of the shape of two dot-separated
\* segments of unpadded base64url, ValidateToken returns ErrInvalidToken and
\* no claims.
C12_MalformedRejected ==
    (val.called /\ ~TwoSegmentShape(val.token)) =>
        val.err = ErrInvalidToken /\ val.claims = NoClaims

\* C12, the case the code decides otherwise: a token followed by a line
\* feed is accepted with the claims of the token
C12_LineFeedAccepted ==
    /\ val.called /\ val.token = gen.token \o <<LineFeed>>
    /\ ~TwoSegmentShape(val.token)
    /\ val.err = Nil /\ val.claims.ok

\* the second segment of the string decodes to the MAC, under the secret,
\* of what its first segment decodes to
MacValid(tok, secret) ==
    /\ Len(Split(tok)) = 2
    /\ DecodeString(SigOf(tok)).bytes
           = computeHMAC(DecodeString(PayloadOf(tok)).bytes, secret)
\* what the payload of the string says, read without any check
PayloadClaims(tok) == Unmarshal(DecodeString(PayloadOf(tok)).bytes)

\* C13: ValidateToken compares the signatures before it parses the claims
\* or looks at their expiry: a well-formed token whose MAC does not match
\* under the given secret yields ErrInvalidSignature and no claims whatever
\* its payload holds, and ErrTokenExpired is returned only for a token whose
\* MAC is valid under the given secret.
C13_SignatureFirst ==
    val.called =>
        /\ (TwoSegmentShape(val.token) /\ ~MacValid(val.token, val.secret)) =>
               val.err = ErrInvalidSignature /\ val.claims = NoClaims
        /\ val.err = ErrTokenExpired => MacValid(val.token, val.secret)

\* C13 witness: a token whose claims parse and have expired, validated
\* under a secret that is not the one that signed it, is refused for its
\* signature
C13_Witness ==
    /\ val.called /\ val.token = gen.token
    /\ ~MacValid(val.token, val.secret)
    /\ ~PayloadClaims(val.token).err
    /\ Unix(val.at) > PayloadClaims(val.token).claims.EXP
    /\ val.err = ErrInvalidSignature

\* C13 second witness: a payload that is not claims JSON, with a signature
\* that does not match, is refused for its signature
C13_WitnessUnparseable ==
    /\ val.called /\ TwoSegmentShape(val.token)
    /\ ~MacValid(val.token, val.secret)
    /\ PayloadClaims(val.token).err
    /\ val.err = ErrInvalidSignature

\* what the caller sees of a response: status line, body and headers
Visible(w) ==
    [status |-> w.status, body |-> w.body, ContentType |-> w.ContentType,
     XAuthUser |-> w.XAuthUser, XAuthMethod |-> w.XAuthMethod]
\* the response to a request without any credential, written out
UniformRejection ==
    [status |-> 401,
     body |-> <<<<"c", "U">>, <<"c", "n">>, <<"c", "a">>, <<"c", "u">>,
                <<"c", "t">>, <<"c", "h">>, <<"c", "o">>, <<"c", "r">>,
                <<"c", "i">>, <<"c", "z">>, <<"c", "e">>, <<"c", "d">>,
                <<"c", "\n">>>>,
     ContentType |-> "text/plain; charset=utf-8",
     XAuthUser |-> <<>>, XAuthMethod |-> ""]
\* the request served last was refused
Refused == Served /\ res.next = 0

\* C16 as stated: every authentication failure, of whatever kind
\* (InvalidToken, InvalidSignature, TokenExpired, TokenRevoked,
\* NoCredentials, CertificateRequired), is answered with one and the same
\* response: same status, same body, same headers.
C16_OneResponseForAllFailures ==
    Refused => Visible(res) = UniformRejection

\* C16 as amended: every failure of Middleware (InvalidToken,
\* InvalidSignature, TokenExpired, TokenRevoked, NoCredentials) is answered
\* with one and the same response; the CertificateRequired failure of
\* RequireCertAuth has the same status and headers and a body of its own,
\* "Client certificate required", the same for every request it refuses.
C16_OneResponsePerHandler ==
    /\ (Refused /\ req.handler = "Middleware") =>
           Visible(res) = UniformRejection
    /\ (Refused /\ req.handler = "RequireCertAuth") =>
           Visible(res) = [UniformRejection EXCEPT
                              !.body = CertRequired \o <<Newline>>]

\* C16 witness: a token the callback reports revoked is refused with the
\* response of a request without credentials
C16_Witness ==
    /\ req.handler = "Middleware" /\ cfg.AuthEnabled /\ ~HasCert
    /\ IsBearer /\ Validation.err = Nil
    /\ cfg.TokenValidator /\ req.vans.err = ErrTokenRevoked
    /\ Refused /\ Visible(res) = UniformRejection

\* the one event of the request tells its outcome
OutcomeEvent ==
    res.events[1].Event = IF res.next = 1 THEN "auth_success" ELSE "auth_failure"

\* C17 as stated: every request served by a middleware hands exactly one
\* event to the SecurityLogger, auth_success or auth_failure according to
\* its outcome: never none, never more than one.
C17_AlwaysOneEvent ==
    Served => Len(res.events) = 1 /\ OutcomeEvent

\* C17 as amended: with authentication enabled and a logger configured
\* every request hands exactly one event to the logger, auth_success or
\* auth_failure according to its outcome; with authentication disabled, or
\* without a logger, it hands none.
C17_OneEventWhenEnabledAndLogged ==
    Served =>
        IF cfg.AuthEnabled /\ cfg.Logger
        THEN Len(res.events) = 1 /\ OutcomeEvent
        ELSE res.events = <<>>

\* C17 witness: a valid token, approved by the callback, is logged once as
\* auth_success
C17_Witness ==
    /\ req.handler = "Middleware" /\ cfg.AuthEnabled /\ cfg.Logger /\ ~HasCert
    /\ IsBearer /\ res.validatorCalls = 1 /\ Proceeded
    /\ Len(res.events) = 1 /\ res.events[1].Event = "auth_success"

\* the certificate and token fields of an identity are all empty
NoCertNoTokenFields(u) ==
    u.DN = <<>> /\ u.Serial = "" /\ u.NotAfter.isZero /\ u.TokenID = ""

\* C20: every identity a middleware attaches satisfies: method cert implies
\* a non-empty distinguished name, a non-zero certificate expiry and an
\* empty token id; method token implies an empty distinguished name, an
\* empty serial and a zero expiry; the single-user identity has method none
\* and all certificate and token fields empty.
C20_IdentityShape ==
    (Served /\ Len(res.user) = 1) =>
        LET u == res.user[1] IN
        /\ u.AuthMethod \in {"cert", "token", "none"}
        /\ u.AuthMethod = "cert" =>
               u.DN # <<>> /\ ~u.NotAfter.isZero /\ u.TokenID = ""
        /\ u.AuthMethod = "token" =>
               u.DN = <<>> /\ u.Serial = "" /\ u.NotAfter.isZero
        /\ ~cfg.AuthEnabled => u.AuthMethod = "none" /\ NoCertNoTokenFields(u)

\* C20, the case the code decides otherwise: a verified certificate with an
\* empty subject gives an identity of method cert without distinguished
\* name
C20_EmptySubject ==
    /\ Served /\ cfg.AuthEnabled /\ HasCert /\ PeerCert.CommonName = <<>>
    /\ Proceeded /\ res.user[1].AuthMethod = "cert" /\ res.user[1].DN = <<>>

\* the request served last came without certificate and presented a bearer
\* string that was issued with an id whose DELETE has succeeded
PresentsRevoked ==
    /\ req.handler = "apiHandler" /\ ~HasCert /\ IsBearer
    /\ \E i \in issued : i.token = PresentedToken /\ i.id \in revoked

\* C14: in the server as main wires it (revocation callback = lookup of
\* HashToken(token) in the tokens table), once DELETE /api/tokens/{id} has
\* succeeded, every later request that presents the bearer string issued
\* with that id is answered 401 and does not reach its handler, although
\* the token's signature is valid and it has not expired.
C14_RevokedTokenRejected ==
    PresentsRevoked => res.status = StatusUnauthorized /\ res.next = 0

\* C14, the case the code decides otherwise: the bearer string of a deleted
\* id is accepted, through the row of another id that holds the same hash
C14_StillAccepted ==
    /\ PresentsRevoked
    /\ res.next = 1 /\ res.user[1].AuthMethod = "token"
    /\ res.user[1].TokenID \notin revoked

\* the rows of the table without their last_used_at
Rows(tab) ==
    {[id |-> row.id, user_cn |-> row.user_cn, name |-> row.name,
      token_hash |-> row.token_hash, created_at |-> row.created_at,
      expires_at |-> row.expires_at] : row \in tab}
\* this step serves a request to mint or to revoke a token that the
\* middleware has authenticated by its bearer token
TokenMintsOrRevokes ==
    /\ req = NoRequest /\ req'.handler = "apiHandler"
    /\ req'.r.Route \in {"POST /api/tokens", "DELETE /api/tokens/{id}"}
    /\ Len(res'.user) = 1 /\ res'.user[1].AuthMethod = "token"

\* C15 as stated: a request authenticated by a bearer token that asks to
\* mint (POST /api/tokens) or to revoke (DELETE /api/tokens/{id}) a token is
\* answered 401 and leaves the token table unchanged.
C15_TokenLeavesTableUnchanged ==
    [][TokenMintsOrRevokes =>
          res'.status = StatusUnauthorized /\ tokens' = tokens]_vars

\* C15 as amended: such a request is answered 401 and adds no row to the
\* token table, removes none and changes none but for the last_used_at of
\* the rows of the token it presented, which the revocation lookup sets; no
\* token is handed out and no id is revoked.
C15_TokenAddsAndRemovesNoRow ==
    [][TokenMintsOrRevokes =>
          /\ res'.status = StatusUnauthorized
          /\ Rows(tokens') = Rows(tokens)
          /\ \A row \in tokens' \ tokens :
                 row.token_hash
                    = HashToken(TrimPrefix(req'.r.Authorization, Bearer))
          /\ issued' = issued /\ revoked' = revoked]_vars

\* C15 witness: a token-authenticated request to mint a token, well formed
\* otherwise, has been answered 401
C15_Witness ==
    /\ req.handler = "apiHandler" /\ req.r.Route = "POST /api/tokens"
    /\ req.r.Body.valid /\ req.r.Body.Name # <<>>
    /\ req.r.Body.ExpiresIn.kind = "absent"
    /\ Len(res.user) = 1 /\ res.user[1].AuthMethod = "token"
    /\ res.status = StatusUnauthorized
    /\ tokens # {}

\* C15 second witness: a token-authenticated request to revoke an id that
\* is in the table has been answered 401
C15_WitnessDelete ==
    /\ req.handler = "apiHandler" /\ req.r.Route = "DELETE /api/tokens/{id}"
    /\ Len(res.user) = 1 /\ res.user[1].AuthMethod = "token"
    /\ \E row \in tokens : row.id = req.r.id /\ row.user_cn = res.user[1].CN
    /\ res.status = StatusUnauthorized

\* the content c of a file is a sequence of whole records: every record's
\* two pieces follow each other
RECURSIVE WholeRecords(_)
WholeRecords(c) ==
    \/ c = <<>>
    \/ /\ Len(c) >= 2
       /\ c[1][1] = "first" /\ c[2] = RestPiece(c[1][2])
       /\ WholeRecords(SubSeq(c, 3, Len(c)))
\* the number of whole records of the call id in the files
RecordsOf(id) ==
    Cardinality({<<i, k>> \in (1..Len(fs.files)) \X (1..(2 * MaxCalls * Cardinality(Workers))) :
                    /\ k < Len(fs.files[i])
                    /\ fs.files[i][k][1] = "first" /\ fs.files[i][k][2].ID = id
                    /\ fs.files[i][k + 1] = RestPiece(fs.files[i][k][2])})
\* the pieces of the call id in the files
PiecesOf(id) ==
    Cardinality({<<i, k>> \in (1..Len(fs.files)) \X (1..(2 * MaxCalls * Cardinality(Workers))) :
                    k <= Len(fs.files[i]) /\ fs.files[i][k][2].ID = id})
\* the calls of log that have returned
Logged == UNION {workers[w].logged : w \in Workers}
\* the file the logger writes to and whether its handle is open
SinkFile == fs.handles[logger.writer].inode
SinkOpen == fs.handles[logger.writer].open
\* file i without the first piece of the record that a call holding the
\* lock is in the middle of writing to it
Settled(i) ==
    LET c == fs.files[i] IN
    IF /\ c # <<>> /\ c[Len(c)][1] = "first" /\ i = SinkFile
       /\ \E w \in Workers :
             /\ workers[w].pc = "log_write" /\ logger.mu = w
             /\ workers[w].event = <<c[Len(c)][2]>>
    THEN SubSeq(c, 1, Len(c) - 1) ELSE c

\* C18: calls of log issued concurrently by the workers never interleave:
\* every file of the sink consists of whole records, the only exception
\* being the record that the one call holding the lock is in the middle of
\* writing; no record is split or mixed with another, no call has more than
\* one line, and while the sink is open every call that has returned has
\* exactly one complete line.
C18_WholeRecords ==
    /\ \A i \in 1..Len(fs.files) : WholeRecords(Settled(i))
    /\ \A w \in Workers : \A k \in 1..MaxCalls :
          /\ RecordsOf(<<w, k>>) <= 1
          /\ PiecesOf(<<w, k>>) <= 2
    /\ SinkOpen => \A id \in Logged : RecordsOf(id) = 1

\* C18 witness: a call is in the middle of writing its record, with the
\* first piece in the file after a whole record of the other worker, while
\* the other worker has called log again and waits for the lock
C18_Witness ==
    \E w \in Workers : \E v \in Workers \ {w} :
        /\ workers[w].pc = "log_write"
        /\ workers[v].pc = "log_lock"
        /\ workers[v].logged # {}
        /\ Len(fs.files[SinkFile]) = 3

\* C19: in any interleaving of Log and Reopen calls no record is lost:
\* every call of log that has returned has its record in a file, and a call
\* that holds the lock and is about to write its record finds the logger's
\* file open, never closed.
C19_NoRecordLost ==
    /\ \A id \in Logged : RecordsOf(id) >= 1
    /\ \A w \in Workers :
          workers[w].pc \in {"log_encode", "log_write"} => SinkOpen

\* C19, the case the code decides otherwise: a Reopen has returned an
\* error, and a call of log after it has returned without its record
\* being in any file
C19_RecordLost ==
    /\ \E w \in Workers : workers[w].err /\ workers[w].pc = "idle"
    /\ \E id \in Logged : RecordsOf(id) = 0
    /\ logger.mu = ""

\* the left-most element of a comma-separated chain x
LeftMost(x) ==
    CHOOSE p \in {SubSeq(x, 1, k) : k \in 0..Len(x)} :
        /\ \A i \in 1..Len(p) : p[i] # Comma
        /\ Len(p) = Len(x) \/ x[Len(p) + 1] = Comma
\* out is p without the blanks around it
IsTrimOf(out, p) ==
    /\ out = <<>> \/ (out[1] # Space /\ out[Len(out)] # Space)
    /\ \E a \in 0..Len(p), b \in 0..Len(p) :
          p = Rep(" ", a) \o out \o Rep(" ", b)

\* C21: ExtractSourceIP(r, trustProxy) returns, with trustProxy off, the
\* raw peer address whatever the headers hold; with trustProxy on, the
\* left-most address of a non-empty X-Forwarded-For without the blanks
\* around it, otherwise a non-empty X-Real-IP, otherwise the raw peer
\* address.
C21_SourceIP ==
    call.fn = "ExtractSourceIP" =>
        LET r == call.args.r
            out == call.result
        IN IF ~call.args.trustProxy THEN out = r.RemoteAddr
           ELSE IF r.XForwardedFor # <<>>
                THEN IsTrimOf(out, LeftMost(r.XForwardedFor))
           ELSE IF r.XRealIP # <<>> THEN out = r.XRealIP
           ELSE out = r.RemoteAddr

\* C21 witness: with trustProxy on, a chain of two addresses with blanks
\* around the first has given the first, although X-Real-IP is set
C21_Witness ==
    /\ call.fn = "ExtractSourceIP" /\ call.args.trustProxy
    /\ call.args.r.XForwardedFor = Txt(<<" ", "1", " ", ",", "2">>)
    /\ call.args.r.XRealIP # <<>>
    /\ call.result = Txt(<<"1">>)

\* C21 second witness: with trustProxy off the headers were set and the
\* peer address came back
C21_WitnessOff ==
    /\ call.fn = "ExtractSourceIP" /\ ~call.args.trustProxy
    /\ call.args.r.XForwardedFor # <<>> /\ call.args.r.XRealIP # <<>>
    /\ call.result = call.args.r.RemoteAddr

\* the truncation marker
Marker == Txt(<<".", ".", ".">>)
HasSuffix(s, q) == Len(s) >= Len(q) /\ SubSeq(s, Len(s) - Len(q) + 1, Len(s)) = q
\* the number of characters of the run of an input, its padding aside
RunChars(in) == Len(SelectSeq(in.run.text, LAMBDA c : c[2] # "="))
\* the run of the input is secret-like: 32 or more hex characters, 32 or
\* more base64 characters, or eyJ and 20 or more further characters
SecretLike(in) ==
    \/ in.run.kind \in {"hex", "std"} /\ RunChars(in) >= 32
    \/ in.run.kind = "jwt" /\ RunChars(in) >= 3 + 20

\* C22: sanitize(s) cuts every s longer than 200 bytes to its first 200
\* bytes followed by "...", returns every s of at most 200 bytes without a
\* secret-like run unchanged, and replaces every secret-like run (one that
\* begins in the part that is kept) with "[REDACTED]".
C22_SanitizeContract ==
    call.fn = "sanitize" =>
        LET in == call.args
            s == TextOf(in)
            out == call.result
        IN /\ Len(s) > 200 => HasSuffix(out, Marker) /\ Len(out) <= 200 + 3
           /\ Len(s) > 200 /\ ~SecretLike(in) =>
                 out = SubSeq(s, 1, 200) \o Marker
           /\ Len(s) <= 200 /\ ~SecretLike(in) => out = s
           /\ SecretLike(in) /\ Len(in.pre) < 200 =>
                 HasPrefix(out, in.pre \o Redacted)

\* C22, the case the code decides otherwise: a secret-like run begins in
\* the first 200 bytes and the result holds its first characters in clear
C22_SecretPartKept ==
    /\ call.fn = "sanitize" /\ SecretLike(call.args)
    /\ Len(call.args.pre) = 200 - 20 /\ call.args.run.kind = "hex"
    /\ call.result
          = call.args.pre \o SubSeq(call.args.run.text, 1, 20) \o Marker

\* the event type each emitter writes
EventTypeOf(fn) ==
    CASE fn = "LogAuthSuccess" -> "auth_success"
      [] fn = "LogAuthFailure" -> "auth_failure"
      [] fn = "LogTokenCreated" -> "token_created"
      [] fn = "LogTokenRevoked" -> "token_revoked"
      [] fn = "LogServerStart" -> "server_start"
      [] fn = "LogServerStop" -> "server_stop"
Emitters ==
    {"LogAuthSuccess", "LogAuthFailure", "LogTokenCreated", "LogTokenRevoked",
     "LogServerStart", "LogServerStop"}

\* C23: for every emitter, each free-text field of the event it hands to
\* log (reason, details, the user-supplied token name, the caller-supplied
\* source address) equals sanitize of the value passed in, and the
\* structured fields (timestamp, event type) are not passed through
\* sanitize.
C23_FreeTextSanitized ==
    call.fn \in Emitters =>
        LET a == call.args
            ev == call.result
        IN /\ ev.Timestamp = Unix(call.at)
           /\ ev.Event = EventTypeOf(call.fn)
           /\ call.fn \in {"LogAuthSuccess", "LogAuthFailure", "LogTokenCreated",
                            "LogTokenRevoked"} =>
                 ev.SourceIP = sanitize(a.sourceIP)
           /\ call.fn = "LogAuthFailure" =>
                 ev.Reason = sanitize(a.reason) /\ ev.Details = sanitize(a.details)
           /\ call.fn = "LogTokenCreated" =>
                 ev.Details = Txt(<<"n", "a", "m", "e", "=">>) \o sanitize(a.tokenName)
                              \o Txt(<<",", " ", "e", "x", "p", "i", "r", "e", "s", "=">>)
                              \o << <<"rfc3339", a.expiresAt>> >>
           /\ call.fn = "LogServerStart" =>
                 ev.Details = Txt(<<"m", "o", "d", "e", "=">>) \o sanitize(a.mode)
                              \o (IF a.caFile # <<>>
                                  THEN Txt(<<",", " ", "c", "a", "=">>)
                                       \o sanitize(a.caFile)
                                  ELSE <<>>)
           /\ call.fn = "LogServerStop" => ev.Reason = sanitize(a.reason)

\* C23, the case the code decides otherwise: LogAuthFailure was handed a
\* source address that looks like a secret and a reason longer than 200
\* bytes, and the event holds both as they came, next to sanitized details
C23_FieldsAsPassed ==
    /\ call.fn = "LogAuthFailure"
    /\ call.args.sourceIP = Rep("a", 32) /\ call.result.SourceIP = Rep("a", 32)
    /\ Len(call.args.reason) > 200 /\ call.result.Reason = call.args.reason
    /\ call.args.details = Rep("a", 32) /\ call.result.Details = Redacted

\* the path of the request served last lies under /api/
UnderApi == HasPrefix(PathOf(req.r.Route), <<"api">>)
PublicRoutes == {"GET /api/health", "GET /api/status"}
\* the middleware has authenticated the request served last: by its
\* certificate, or by a bearer token that is valid and that the store knows
Authenticated ==
    /\ Len(res.user) = 1
    /\ \/ res.user[1].AuthMethod = "cert" /\ HasCert
       \/ /\ res.user[1].AuthMethod = "token" /\ IsBearer
          /\ ValidateToken(PresentedToken, StoredSecret, req.at).err = Nil
          /\ res.validatorCalls = 1 /\ req.vans.err = Nil

\* C24: in the auth-enabled server GET /api/health and GET /api/status are
\* answered 200 whatever the credentials, without the middleware; every
\* other request under /api/ goes through the middleware, reaches its
\* handler only if the middleware has authenticated it, and is answered
\* 401 otherwise.
C24_PublicAndProtected ==
    req # NoRequest =>
        /\ req.r.Route \in PublicRoutes =>
              /\ req.handler \in {"HandleHealth", "HandleStatus"}
              /\ res.status = StatusOK
              /\ res.next = 0 /\ res.events = <<>>
        /\ UnderApi /\ req.r.Route \notin PublicRoutes =>
              /\ req.handler = "apiHandler"
              /\ res.next <= 1
              /\ res.next = 1 => Authenticated
              /\ res.next = 0 => res.status = StatusUnauthorized

\* C24 witness: a request without any credential was answered on
\* GET /api/health
C24_Witness ==
    /\ req.handler = "HandleHealth" /\ req.r.Route = "GET /api/health"
    /\ ~HasCert /\ req.r.Authorization = <<>>
    /\ res.status = StatusOK

\* C24 second witness: another method on the public path, and a route
\* whose handler does not look at the caller, were answered 401 without
\* credentials
C24_WitnessProtected ==
    /\ req.handler = "apiHandler"
    /\ req.r.Route \in {"POST /api/health", "GET /api/items"}
    /\ ~HasCert /\ req.r.Authorization = <<>>
    /\ res.status = StatusUnauthorized /\ res.next = 0

\* the bearer string tok is in no row of the token table, which holds
\* SHA-256 digests only
NotInTable(tok) ==
    \A row \in tokens :
        /\ row.token_hash[1] = "sha256"
        /\ row.token_hash # tok /\ row.name # tok
\* the bearer string tok is in no event of the request served last
NotInEvents(tok) ==
    \A k \in 1..Len(res.events) :
        /\ ~Contains(res.events[k].SourceIP, tok)
        /\ ~Contains(res.events[k].Details, tok)
\* no response but the one to a creation carries the bearer string tok
OnlyInCreation(tok) == res.status # StatusCreated => ~Contains(res.body, tok)

\* C25: after any sequence of creations, validations and revocations, no
\* bearer string that was issued is held in the token table (only its
\* SHA-256 digest is) or appears in an event of the security log, and each
\* was returned exactly once, in the response to its creation request: no
\* other response carries it and no two creations returned the same string.
C25_BearerReturnedOnce ==
    \A i \in issued :
        /\ NotInTable(i.token)
        /\ NotInEvents(i.token)
        /\ OnlyInCreation(i.token)
        /\ \A j \in issued : j.token = i.token => j.id = i.id

\* C25, the case the code decides otherwise: the creation served last has
\* returned, under a new id, the bearer string that an earlier creation
\* returned
C25_ReturnedAgain ==
    /\ req.handler = "apiHandler" /\ req.r.Route = "POST /api/tokens"
    /\ res.status = StatusCreated
    /\ \E i \in issued : i.id # res.body[1].ID /\ i.token = res.body[1].Token

\* the request served last asked for the list of tokens and was
\* authenticated by a bearer token only
TokenAsksList ==
    /\ req.handler = "apiHandler" /\ req.r.Route = "GET /api/tokens"
    /\ ~HasCert
    /\ Len(res.user) = 1 /\ res.user[1].AuthMethod = "token"

\* C28: with authentication enabled GET /api/tokens requires certificate
\* authentication, like POST /api/tokens and DELETE /api/tokens/{id}: a
\* caller authenticated only by a bearer token is refused with 401 and is
\* given no list.
C28_ListRequiresCert ==
    TokenAsksList => res.status = StatusUnauthorized

\* C28, the case the code decides otherwise: a caller authenticated only
\* by a bearer token was answered 200 with the rows of its common name
C28_ListGivenToToken ==
    /\ TokenAsksList
    /\ res.status = StatusOK
    /\ res.body[1] # {}
    /\ \A row \in res.body[1] : row.user_cn = res.user[1].CN

\* the tokens that were issued, are still in the table and were not revoked
StoredUnrevoked ==
    {i \in issued : i.id \notin revoked /\ \E row \in tokens : row.id = i.id}
\* the token's own check and the store's check of the token tok at the
\* clock value of the state
CodecAccepts(tok) == ValidateToken(tok, StoredSecret, now).err = Nil
StoreAccepts(tok) ==
    \E out \in ValidateTokenHash(tokens, HashToken(tok), now) : out.err = Nil

\* C30: the token's own expiry check and the store's expiry check agree at
\* every clock value: for every stored, unrevoked token and every time,
\* the second of its expiresAt included, ValidateToken accepts the token if
\* and only if Store.ValidateTokenHash accepts its hash.
C30_ExpiryChecksAgree ==
    \A i \in StoredUnrevoked : CodecAccepts(i.token) <=> StoreAccepts(i.token)

\* C30, the case the code decides otherwise: in the second of its
\* expiresAt, a second after it was issued, a stored, unrevoked token
\* passes ValidateToken and is refused by the store
C30_DisagreeAtExpiry ==
    \E i \in StoredUnrevoked :
        LET v == ValidateToken(i.token, StoredSecret, now) IN
        /\ v.err = Nil /\ ~StoreAccepts(i.token)
        /\ Unix(now) = v.claims.EXP /\ v.claims.EXP > v.claims.IAT

\* the ways obtaining the signing secret fails: the lookup, the random
\* generation, the insert
SecretFailures == {"query secret", "generate secret", "store secret"}

\* C27: if obtaining the signing secret fails at the start of an
\* auth-enabled server, the process aborts and no request is ever accepted;
\* requests are accepted only by a server that has finished its set-up,
\* and in auth-enabled mode that server's middleware holds the signing
\* secret that is in the secret store.
C27_NoServingWithoutSecret ==
    /\ proc.err \in SecretFailures =>
          proc.pc = "aborted" /\ req = NoRequest /\ res = NoResponse
    /\ req # NoRequest => proc.pc = "serving" /\ proc.err = ""
    /\ proc.pc = "serving" /\ proc.authEnabled =>
          /\ proc.secret # <<>> /\ proc.config = <<proc.secret>>
          /\ cfg.AuthEnabled /\ cfg.Secret = proc.secret

\* C27 witness: the store had no secret, the insert of the new one failed,
\* and the process has aborted without accepting a request
C27_Witness ==
    /\ proc.authEnabled /\ proc.err = "store secret" /\ proc.pc = "aborted"
    /\ proc.config = <<>> /\ proc.secret = <<>>
    /\ req = NoRequest

\* C27 second witness: the server created its secret and has authenticated
\* a request by its certificate
C27_WitnessServing ==
    /\ proc.pc = "serving" /\ proc.authEnabled /\ proc.secret = <<2>>
    /\ req # NoRequest /\ req.handler = "apiHandler" /\ res.next = 1

\* what a request handled alone gets: the response and the identity of
\* Middleware run on it in one piece, with the clock its ValidateToken
\* read and the answer its TokenValidator call got
Alone(f) == Middleware(cfg, f.r, f.at, f.vans)

\* the outcome of a run: the response, whether next ran, and the identity
\* next saw
Outcome(w) ==
    [status |-> w.status, body |-> w.body, ContentType |-> w.ContentType,
     XAuthUser |-> w.XAuthUser, XAuthMethod |-> w.XAuthMethod,
     next |-> w.next, user |-> w.user,
     validateCalls |-> w.validateCalls, validatorCalls |-> w.validatorCalls]

\* C26: when several requests are handled concurrently, in every
\* interleaving each finished request has the outcome and the identity it
\* would get if handled alone with the same configuration, clock and
\* revocation answer, and the identity in a request's context is never
\* one built for another request.
C26_AsIfAlone ==
    \A h \in Handlers :
        LET f == inflight[h] IN
        /\ f.pc = "done" => Outcome(f.w) = Outcome(Alone(f))
        /\ f.pc \in {"next", "done"} /\ f.ctx # <<>> => f.ctx = Alone(f).user
        /\ f.pc \in {"idle", "cert", "validate", "validator"} => f.ctx = <<>>

\* C26 witness: two requests with the tokens of different users have both
\* finished, each with its own identity
C26_Witness ==
    /\ \A h \in Handlers : inflight[h].pc = "done" /\ inflight[h].w.next = 1
    /\ inflight["h1"].w.user # inflight["h2"].w.user
    /\ inflight["h1"].w.user[1].AuthMethod = "token"
    /\ inflight["h2"].w.user[1].AuthMethod = "token"

\* C26 second witness: one request was let through while the other, with
\* the other user's token, was refused after the token was revoked
C26_WitnessMixed ==
    /\ inflight["h1"].pc = "done" /\ inflight["h1"].w.next = 1
    /\ inflight["h2"].pc = "done" /\ inflight["h2"].w.status = StatusUnauthorized
    /\ inflight["h2"].w.validatorCalls = 1

\* the signature a ValidateToken call was given, decoded, and the HMAC
\* value the call computes
GivenSig == DecodeString(SigOf(call.args.tokenString)).bytes
ExpectedSig ==
    computeHMAC(DecodeString(PayloadOf(call.args.tokenString)).bytes,
                call.args.secret)

\* the signatures of the length of the given one: each unit that of the
\* HMAC value or another
SameLengthSigs ==
    {[i \in 1..Len(GivenSig) |->
         IF i \in wrong \/ i > MacUnits THEN WrongUnit ELSE ExpectedSig[i]] :
        wrong \in SUBSET (1..Len(GivenSig))}

\* C29: ValidateToken compares the recomputed MAC with the presented one
\* in constant time: the units the comparison looks at are as many for any
\* other presented MAC of the same length, wherever the first differing
\* unit is, and a MAC of the right length is read to its end.
C29_ConstantTimeCompare ==
    call.fn = "ValidateToken" =>
        /\ \A sig \in SameLengthSigs :
              ValidateToken(PayloadOf(call.args.tokenString) \o <<Dot>>
                               \o EncodeToString(sig),
                            call.args.secret, call.at).steps = call.result.steps
        /\ Len(GivenSig) = MacUnits => call.result.steps = MacUnits

\* C29 witness: the presented MAC differs from the recomputed one in its
\* first unit only, and the call has refused it after reading it all
C29_Witness ==
    /\ call.fn = "ValidateToken"
    /\ Len(GivenSig) = MacUnits
    /\ GivenSig[1] # ExpectedSig[1]
    /\ \A i \in 2..MacUnits : GivenSig[i] = ExpectedSig[i]
    /\ call.result.err = ErrInvalidSignature
    /\ call.result.steps = MacUnits

\* C29 second witness: the presented MAC differs in its last unit only
C29_WitnessLast ==
    /\ call.fn = "ValidateToken"
    /\ Len(GivenSig) = MacUnits
    /\ GivenSig[MacUnits] # ExpectedSig[MacUnits]
    /\ \A i \in 1..(MacUnits - 1) : GivenSig[i] = ExpectedSig[i]
    /\ call.result.err = ErrInvalidSignature
    /\ call.result.steps = MacUnits

\* C31: every successful creation returns a bearer string, and stores a
\* hash, different from those of every token issued before it, also for
\* the same common name with the same TTL within the same clock second; so
\* each row of the token table identifies exactly one bearer string.
C31_EachCreationDistinct ==
    /\ \A i, j \in issued :
          i.id # j.id => HashToken(i.token) # HashToken(j.token)
    /\ \A row, other \in tokens :
          row.id # other.id => row.token_hash # other.token_hash

\* C31, the case the code decides otherwise: two rows of one owner, created
\* in the same second with the same expiry, hold the same hash under two ids
C31_SameHashTwice ==
    \E row, other \in tokens :
        /\ row.id # other.id /\ row.token_hash = other.token_hash
        /\ row.user_cn = other.user_cn /\ row.created_at = other.created_at
        /\ row.expires_at = other.expires_at

\* C32: an empty signing secret is never used: GenerateToken given an
\* empty secret fails without producing a token, and a Middleware with
\* authentication enabled and an empty or unset secret never authenticates
\* a bearer token.
C32_EmptySecretUnused ==
    /\ \A cn \in CNs, ttl \in TTLs :
          LET g == GenerateToken(cn, ttl, <<>>, now) IN
          g.err # Nil /\ g.token = <<>>
    /\ Served /\ cfg.AuthEnabled /\ cfg.Secret = <<>> /\ ~HasCert /\ IsBearer =>
          res.next = 0 /\ res.status = StatusUnauthorized

\* C32, the case the code decides otherwise: a middleware whose secret is
\* empty has authenticated a caller by a bearer token, which anyone can
\* sign with the empty key
C32_EmptySecretAuthenticates ==
    /\ Served /\ cfg.AuthEnabled /\ cfg.Secret = <<>> /\ ~HasCert /\ IsBearer
    /\ ValidateToken(PresentedToken, <<>>, req.at).err = Nil
    /\ GenerateToken(<<"a">>, MaxTTL, <<>>, 0).err = Nil
    /\ Proceeded /\ res.user[1].AuthMethod = "token"

\* the request served last was handed to the API server by apiHandler:
\* it has reached the handler of a non-public /api/ route
ReachedApi == req # NoRequest /\ req.handler = "apiHandler" /\ req.api

\* C33: in the server as main wires it, every request that reaches a
\* handler of a non-public /api/ route carries a caller identity in its
\* context, with authentication enabled and with authentication disabled,
\* where it is the single-user identity.
C33_IdentityInContext ==
    ReachedApi =>
        /\ req.user # <<>>
        /\ ~proc.authEnabled => req.user = <<SingleUserContext>>

\* C33, the case the code decides otherwise: authentication is disabled and
\* the handler of the token list was called without an identity, which it
\* has answered 401
C33_NoIdentityWhenDisabled ==
    /\ ReachedApi /\ ~proc.authEnabled
    /\ req.r.Route = "GET /api/tokens"
    /\ req.user = <<>> /\ res.status = StatusUnauthorized

\* a call of Reopen has returned an error
ReopenFailed == \E w \in Workers : workers[w].pc = "idle" /\ workers[w].err

\* C34: once a call of Reopen has returned an error the logger remains
\* usable: every call of log that goes on to write its event after that
\* finds the logger's sink open, and its event is not discarded.
C34_UsableAfterFailedReopen ==
    ReopenFailed =>
        \A w \in Workers :
            /\ workers[w].pc \in {"log_encode", "log_write"} => SinkOpen
            /\ workers[w].pc = "log_unlock" =>
                   PiecesOf(workers[w].event[1].ID) = 2

\* C34, the case the code decides otherwise: Reopen has returned an error,
\* the logger is left on the file it has closed, and a call of log made
\* after that is about to return with no piece of its event in any file
C34_EventDiscarded ==
    /\ ReopenFailed /\ ~SinkOpen
    /\ \E w \in Workers :
          /\ workers[w].pc = "log_unlock" /\ logger.mu = w
          /\ PiecesOf(workers[w].event[1].ID) = 0

\* worker w is inside a call of log or Reopen, and it holds the mutex there
InCall(w) == workers[w].pc # "idle"
HoldsLock(w) == workers[w].pc \notin {"idle", "log_lock", "reopen_lock"}

\* C35: the mutex is released at the end of every call of log and of Reopen
\* on every path, a failed write, Close or OpenFile included: it is held
\* only by a caller between its Lock and its return, and under fair
\* scheduling every caller that has entered log or Reopen returns; no
\* interleaving of the calls deadlocks.
C35_EveryCallReturns ==
    /\ [](\A w \in Workers : logger.mu = w <=> HoldsLock(w))
    /\ []((\A w \in Workers : ~HoldsLock(w)) => logger.mu = "")
    /\ \A w \in Workers : InCall(w) ~> ~InCall(w)

\* C35 witness: a caller of Reopen waits for the mutex while a caller of
\* log, whose write has failed on the closed file, is about to return, and
\* a call of Reopen has returned an error before
C35_Witness ==
    \E w \in Workers : \E v \in Workers \ {w} :
        /\ workers[w].pc = "reopen_lock"
        /\ workers[v].pc = "log_unlock" /\ logger.mu = v
        /\ ~SinkOpen /\ workers[v].err
        /\ PiecesOf(workers[v].event[1].ID) = 0

\* the request served last is a POST /api/tokens
ServedCreate ==
    /\ req # NoRequest /\ req.handler = "apiHandler"
    /\ req.r.Route = "POST /api/tokens"
\* its expires_in does not parse, or is a duration that is not positive
BadExpiresIn ==
    \/ req.r.Body.ExpiresIn.kind = "bad"
    \/ req.r.Body.ExpiresIn.kind = "duration" /\ req.r.Body.ExpiresIn.d <= 0
\* the lifetime it asks for: its expires_in, the default TTL when it has none
AskedTTL ==
    IF req.r.Body.ExpiresIn.kind = "duration"
    THEN req.r.Body.ExpiresIn.d ELSE authCfg.DefaultTTL
\* the handler has come to read expires_in: the caller may create tokens
\* and the body has a name
ReadExpiresIn ==
    /\ res.user # <<>> /\ res.user[1].AuthMethod = "cert"
    /\ req.r.Body.valid /\ TrimSpace(req.r.Body.Name) # <<>>

\* C36: every token minted by POST /api/tokens has a lifetime of at most
\* the maximum TTL: the response's and the row's expiry is the time of the
\* request plus the requested expires_in (the default TTL when none is
\* given) clamped down to MaxTTL, and the token minted is the one
\* GenerateToken makes for that lifetime; a request whose expires_in does
\* not parse or is zero or negative mints and stores nothing, and is
\* answered 400 once the handler has come to read expires_in (401 when the
\* caller was refused before that).
C36_LifetimeClamped ==
    [][ServedCreate' =>
         /\ res'.status = StatusCreated =>
               /\ ~BadExpiresIn'
               /\ res'.body[1].ExpiresAt = req'.at + Min(AskedTTL', authCfg.MaxTTL)
               /\ res'.body[1].ExpiresAt - req'.at <= authCfg.MaxTTL
               /\ res'.body[1].Token =
                     GenerateToken(res'.user[1].CN, Min(AskedTTL', authCfg.MaxTTL),
                                   authCfg.Secret, req'.at).token
               /\ \E row \in tokens' \ tokens :
                     /\ row.id = res'.body[1].ID
                     /\ row.expires_at = FormatRFC3339(res'.body[1].ExpiresAt)
                     /\ row.token_hash = HashToken(res'.body[1].Token)
         /\ BadExpiresIn' =>
               /\ res'.status \in {StatusBadRequest, StatusUnauthorized}
               /\ ReadExpiresIn' => res'.status = StatusBadRequest
               /\ {row.id : row \in tokens'} = {row.id : row \in tokens}
               /\ issued' = issued
    ]_vars

\* C36 witness: a request asking for more than the maximum TTL was answered
\* 201 with a token that expires the maximum TTL after the request
C36_Witness ==
    /\ ServedCreate /\ res.status = StatusCreated
    /\ req.r.Body.ExpiresIn.kind = "duration"
    /\ req.r.Body.ExpiresIn.d > authCfg.MaxTTL
    /\ res.body[1].ExpiresAt = req.at + authCfg.MaxTTL

\* C36 witness: a certificate caller's request with a name and an
\* expires_in that is zero or does not parse was answered 400
C36_WitnessRefused ==
    /\ ServedCreate /\ BadExpiresIn /\ ReadExpiresIn
    /\ res.status = StatusBadRequest

\* the request served last is one of the API server's token routes
ServedRoute(route) ==
    req # NoRequest /\ req.handler = "apiHandler" /\ req.r.Route = route
\* the common name the request served last was served as
CallerCN == res.user[1].CN
\* a row as GET /api/tokens lists it
Listed(row) ==
    [id |-> row.id, user_cn |-> row.user_cn, name |-> row.name,
     created_at |-> row.created_at, expires_at |-> row.expires_at,
     last_used_at |-> row.last_used_at]

\* C37: token ownership is isolated per common name.  A DELETE removes a row
\* only if the row has the id asked for and is owned by the caller's common
\* name, and that row alone; a DELETE of another owner's token is answered
\* 404 and leaves the table as it was.  A GET /api/tokens lists exactly the
\* rows owned by the caller's common name, which for a caller with a bearer
\* token is the owner of the token's own row.  So no step of the API lets a
\* caller revoke or see a token of a different common name.
C37_OwnersIsolated ==
    [][/\ ServedRoute("DELETE /api/tokens/{id}")' =>
            /\ \A row \in tokens :
                  (row.id # req'.r.id \/ res'.user = <<>> \/ row.user_cn # CallerCN')
                  => [row EXCEPT !.last_used_at = Null]
                       \in {[x EXCEPT !.last_used_at = Null] : x \in tokens'}
            /\ res'.status = StatusNoContent =>
                  \E row \in tokens :
                      /\ row.id = req'.r.id /\ row.user_cn = CallerCN'
                      /\ tokens' = tokens \ {row}
            /\ (\E row \in tokens : /\ row.id = req'.r.id /\ res'.user # <<>>
                                     /\ row.user_cn # CallerCN'
                                     /\ res'.user[1].AuthMethod = "cert")
                  => res'.status = StatusNotFound /\ tokens' = tokens
       /\ (ServedRoute("GET /api/tokens")' /\ res'.status = StatusOK) =>
            /\ res'.body[1] = {Listed(row) : row \in {x \in tokens' : x.user_cn = CallerCN'}}
            /\ res'.user[1].AuthMethod = "token" =>
                  \A row \in tokens' :
                      row.token_hash = HashToken(PresentedToken')
                      => row.user_cn = CallerCN'
    ]_vars

\* C37 witness: a certificate caller asked to delete a token that another
\* common name owns; the answer was 404 and the row is still in the table
C37_Witness ==
    /\ ServedRoute("DELETE /api/tokens/{id}")
    /\ res.user # <<>> /\ res.user[1].AuthMethod = "cert"
    /\ res.status = StatusNotFound
    /\ \E row \in tokens : row.id = req.r.id /\ row.user_cn # CallerCN

\* C37 witness: a caller with a bearer token was listed the one row of its
\* own common name while the table holds a row of another common name
C37_WitnessList ==
    /\ ServedRoute("GET /api/tokens") /\ res.status = StatusOK
    /\ res.user[1].AuthMethod = "token"
    /\ Cardinality(res.body[1]) = 1
    /\ \E row \in tokens : row.user_cn # CallerCN

\* the errors of main for a CA file that cannot be read or parsed
CAFailures == {"read CA certificate", "parse CA certificate"}
\* the request served last was served as the owner of a peer certificate
CertIdentity ==
    /\ req # NoRequest /\ res.user # <<>> /\ res.user[1].AuthMethod = "cert"

\* C38: whenever the server serves with authentication enabled it serves
\* over TLS and verifies the client certificates it is given against the
\* CA of -ca.  Started with -ca but without -cert or without -key, main
\* aborts and serves nothing, and so it does when the CA file cannot be
\* read or parsed; so every peer certificate that the middleware has turned
\* into an identity was offered by the client with the CA as its issuer.
C38_VerifiedAgainstCA ==
    /\ (proc.pc = "serving" /\ proc.authEnabled) =>
          /\ proc.flags.ca /\ proc.flags.cert /\ proc.flags.key
          /\ proc.tls.on
          /\ proc.tls.ClientAuth = "VerifyClientCertIfGiven"
          /\ proc.tls.ClientCAs = {TrustedCA}
    /\ (proc.flags.ca /\ ~(proc.flags.cert /\ proc.flags.key)) =>
          /\ proc.pc \in {"flags", "aborted"} /\ req = NoRequest
          /\ proc.pc = "aborted" => proc.err = "-ca requires -cert and -key"
    /\ proc.err \in CAFailures => proc.pc = "aborted" /\ req = NoRequest
    /\ (req # NoRequest /\ proc.authEnabled) => req.r.TLS.present
    /\ CertIdentity =>
          /\ proc.authEnabled
          /\ req.offer # <<>> /\ req.offer[1].issuer = TrustedCA
          /\ req.r.TLS.PeerCertificates = <<req.offer[1].cert>>
          /\ res.user[1].CN = req.offer[1].cert.CommonName

\* C38 witness: the server serves with authentication enabled and a
\* request on a connection with a certificate of the CA was served as the
\* certificate's common name
C38_Witness ==
    /\ proc.pc = "serving" /\ proc.authEnabled /\ CertIdentity
    /\ req.r.Route = "GET /api/whoami"
    /\ req.offer[1].issuer = TrustedCA
    /\ res.user[1].CN = req.offer[1].cert.CommonName

\* C38 witness: main was started with -ca and -cert but without -key and
\* has aborted
C38_WitnessAborted ==
    /\ proc.flags.ca /\ proc.flags.cert /\ ~proc.flags.key
    /\ proc.pc = "aborted" /\ proc.err = "-ca requires -cert and -key"

\* C38 witness: without -ca the server serves over TLS and a client's
\* certificate of another issuer is not asked for: the request has none
C38_WitnessServerOnlyTLS ==
    /\ proc.pc = "serving" /\ ~proc.authEnabled /\ proc.tls.on
    /\ req # NoRequest /\ req.offer # <<>> /\ req.offer[1].issuer # TrustedCA
    /\ req.r.TLS.present /\ req.r.TLS.PeerCertificates = <<>>

====
